---------------------------- MODULE Spec2Model ----------------------------
(***************************************************************************)
(* A model of the dristee1 photo gallery (src/dristeeApp3.py): the SQLite  *)
(* store with its three tables, the JSON snapshot written by save_backup   *)
(* and read back by restore_db, the push of the snapshot to the remote     *)
(* host by commit_backup_api, and the operations the Streamlit script      *)
(* runs on a user interaction.                                             *)
(*                                                                         *)
(* Strings are sequences of one-character strings, byte strings are        *)
(* sequences of numbers 0..255.  A Python / JSON / SQLite value is a       *)
(* record [t, i, s, b]: its type tag, and its integer, text and bytes      *)
(* payload (the unused payloads are 0 and << >>).                          *)
(***************************************************************************)
EXTENDS Integers, Sequences, FiniteSets, TLC

VARIABLES
    store,        \* gallery.db: [tables, folders, images, surveys]
    file,         \* data/db_backup.json: [exists, raw]
    remote,       \* the file at the remote host: [exists, content]
    config,       \* the environment: [GITHUB_TOKEN, REPO_URL]
    net,          \* what the network and the host may do during a call
    is_author,    \* st.session_state.is_author
    pc,           \* the position of the script run
    lastOp,       \* the last function called, its arguments and its result
    lastRestore,  \* what the last restore_db did
    lastPush,     \* what the last commit_backup_api did
    steps,        \* the steps of the last handler, in the order they ran
    sessions      \* the sessions that are served side by side, each with
                  \* the position of its script run and its session_state

vars == <<store, file, remote, config, net, is_author, pc, lastOp,
          lastRestore, lastPush, steps, sessions>>

---------------------------------------------------------------------------
(* Characters and strings.                                                 *)

LowerLetters == <<"a","b","c","d","e","f","g","h","i","j","k","l","m",
                  "n","o","p","q","r","s","t","u","v","w","x","y","z">>

UpperLetters == <<"A","B","C","D","E","F","G","H","I","J","K","L","M",
                  "N","O","P","Q","R","S","T","U","V","W","X","Y","Z">>

Digits == <<"0","1","2","3","4","5","6","7","8","9">>

NL == "\n"

Range(f) == {f[x] : x \in DOMAIN f}

\* str.isspace() characters that the model's strings use
Whitespace == {" ", NL, "\t"}

\* the position of c in the sequence a (0 when c is not in a)
IndexOf(c, a) == IF c \in Range(a) THEN CHOOSE k \in DOMAIN a : a[k] = c ELSE 0

\* str.lower() on one character
LowerChar(c) ==
    IF c \in Range(UpperLetters) THEN LowerLetters[IndexOf(c, UpperLetters)] ELSE c

\* str.lower()
Lower(s) == [k \in DOMAIN s |-> LowerChar(s[k])]

\* s.startswith(p)
StartsWith(s, p) == Len(s) >= Len(p) /\ SubSeq(s, 1, Len(p)) = p

\* s.strip() = "" : nothing but whitespace
IsBlank(s) == \A k \in DOMAIN s : s[k] \in Whitespace

\* c repeated n times
Rep(c, n) == [k \in 1..n |-> c]

---------------------------------------------------------------------------
(* validate_folder_name: re.match(r"^[a-z0-9_]{3,20}$", folder).           *)

MinSlugLen == 3

MaxSlugLen == 20

\* the character class [a-z0-9_]
SlugChars == Range(LowerLetters) \cup Range(Digits) \cup {"_"}

\* Python's "$" (no re.MULTILINE): the end of the string, or just before a
\* newline that is the last character of the string
DollarAt(s, n) == n = Len(s) \/ (n = Len(s) - 1 /\ s[Len(s)] = NL)

\* the match: n characters of the class from the start, 3 <= n <= 20, and
\* then "$"
validate_folder_name(folder) ==
    \E n \in MinSlugLen..MaxSlugLen :
        /\ n <= Len(folder)
        /\ \A k \in 1..n : folder[k] \in SlugChars
        /\ DollarAt(folder, n)

---------------------------------------------------------------------------
(* Values.  t is the Python type of the value: "none", "bool", "int",      *)
(* "float", "str", "bytes", "list" (a list or a dict, which sqlite3 cannot *)
(* bind), or "missing" for a key that a JSON object does not have.  A      *)
(* float holds its value in tenths in i.                                   *)

Val(t, i, s, b) == [t |-> t, i |-> i, s |-> s, b |-> b]

NoneV == Val("none", 0, << >>, << >>)

MissingV == Val("missing", 0, << >>, << >>)

IntV(n) == Val("int", n, << >>, << >>)

BoolV(v) == Val("bool", IF v THEN 1 ELSE 0, << >>, << >>)

FloatV(tenths) == Val("float", tenths, << >>, << >>)

StrV(s) == Val("str", 0, s, << >>)

BytesV(b) == Val("bytes", 0, << >>, b)

ListV == Val("list", 0, << >>, << >>)

\* the result of an expression that may raise: ok = FALSE is the exception
Ok(v) == [ok |-> TRUE, v |-> v]

Raise == [ok |-> FALSE, v |-> NoneV]

RECURSIVE NatToChars(_)
\* str(n) for n >= 0
NatToChars(n) ==
    IF n < 10 THEN <<Digits[n + 1]>>
    ELSE NatToChars(n \div 10) \o <<Digits[(n % 10) + 1]>>

\* str(n)
IntToChars(n) == IF n < 0 THEN <<"-">> \o NatToChars(-n) ELSE NatToChars(n)

\* repr of a float held in tenths
FloatToChars(tenths) ==
    LET a == IF tenths < 0 THEN -tenths ELSE tenths
    IN  (IF tenths < 0 THEN <<"-">> ELSE << >>)
            \o NatToChars(a \div 10) \o <<".">> \o NatToChars(a % 10)

RECURSIVE DigitsToNat(_)
DigitsToNat(s) ==
    IF s = << >> THEN 0
    ELSE 10 * DigitsToNat(SubSeq(s, 1, Len(s) - 1))
            + (IndexOf(s[Len(s)], Digits) - 1)

RECURSIVE StripLeft(_)
StripLeft(s) ==
    IF s # << >> /\ s[1] \in Whitespace THEN StripLeft(Tail(s)) ELSE s

RECURSIVE StripRight(_)
StripRight(s) ==
    IF s # << >> /\ s[Len(s)] \in Whitespace
    THEN StripRight(SubSeq(s, 1, Len(s) - 1)) ELSE s

\* str.strip()
Strip(s) == StripRight(StripLeft(s))

\* int(s) for a str: whitespace around, an optional sign, then decimal
\* digits in which single underscores may separate digits
IntOfDigits(body, negative) ==
    IF /\ body # << >>
       /\ body[1] # "_" /\ body[Len(body)] # "_"
       /\ \A k \in 1..(Len(body) - 1) : ~(body[k] = "_" /\ body[k + 1] = "_")
       /\ \A k \in DOMAIN body : body[k] \in Range(Digits) \cup {"_"}
    THEN Ok(IntV((IF negative THEN -1 ELSE 1)
                    * DigitsToNat(SelectSeq(body, LAMBDA c : c # "_"))))
    ELSE Raise

IntOfStripped(t) ==
    IF t # << >> /\ t[1] \in {"+", "-"} THEN IntOfDigits(Tail(t), t[1] = "-")
    ELSE IntOfDigits(t, FALSE)

IntOfStr(s) == IntOfStripped(Strip(s))

\* int(v): an int is itself, a bool is 0 or 1, a float is truncated toward
\* zero, a str is parsed; None, a list and a dict raise TypeError
PyInt(v) ==
    CASE v.t = "int" -> Ok(v)
      [] v.t = "bool" -> Ok(IntV(v.i))
      [] v.t = "float" ->
            Ok(IntV(IF v.i < 0 THEN -((-v.i) \div 10) ELSE v.i \div 10))
      [] v.t = "str" -> IntOfStr(v.s)
      [] OTHER -> Raise

---------------------------------------------------------------------------
(* base64.b64encode and base64.b64decode (binascii.a2b_base64, not strict).*)

B64Alphabet == UpperLetters \o LowerLetters \o Digits \o <<"+", "/">>


B64Char(n) == B64Alphabet[n + 1]

RECURSIVE b64encode_nopad(_)
\* an encoder that leaves the "=" padding out
b64encode_nopad(bs) ==
    IF bs = << >> THEN << >>
    ELSE IF Len(bs) = 1 THEN
        <<B64Char(bs[1] \div 4), B64Char((bs[1] % 4) * 16)>>
    ELSE IF Len(bs) = 2 THEN
        <<B64Char(bs[1] \div 4),
          B64Char((bs[1] % 4) * 16 + bs[2] \div 16),
          B64Char((bs[2] % 16) * 4)>>
    ELSE
        <<B64Char(bs[1] \div 4),
          B64Char((bs[1] % 4) * 16 + bs[2] \div 16),
          B64Char((bs[2] % 16) * 4 + bs[3] \div 64),
          B64Char(bs[3] % 64)>> \o b64encode_nopad(SubSeq(bs, 4, Len(bs)))

RECURSIVE b64encode(_)
\* three bytes give four characters; a last group of one or two bytes is
\* padded with "=" to four characters
b64encode(bs) ==
    IF bs = << >> THEN << >>
    ELSE IF Len(bs) = 1 THEN
        <<B64Char(bs[1] \div 4), B64Char((bs[1] % 4) * 16), "=", "=">>
    ELSE IF Len(bs) = 2 THEN
        <<B64Char(bs[1] \div 4),
          B64Char((bs[1] % 4) * 16 + bs[2] \div 16),
          B64Char((bs[2] % 16) * 4),
          "=">>
    ELSE
        <<B64Char(bs[1] \div 4),
          B64Char((bs[1] % 4) * 16 + bs[2] \div 16),
          B64Char((bs[2] % 16) * 4 + bs[3] \div 64),
          B64Char(bs[3] % 64)>> \o b64encode(SubSeq(bs, 4, Len(bs)))

RECURSIVE a2b_base64(_, _, _, _, _)
\* the decoder's loop over the characters s: quad is the position in the
\* group of four, left the bits carried over, pads the "=" seen in a row,
\* out the bytes so far.  A character outside the alphabet is ignored; a
\* pad ends the input once it completes a group; input that ends inside a
\* group is an error.
a2b_base64(s, quad, left, pads, out) ==
    IF s = << >> THEN
        (IF quad = 0 THEN [ok |-> TRUE, v |-> BytesV(out)] ELSE Raise)
    ELSE IF s[1] = "=" THEN
        (IF quad >= 2 /\ quad + pads + 1 >= 4
         THEN [ok |-> TRUE, v |-> BytesV(out)]
         ELSE a2b_base64(Tail(s), quad, left,
                         IF quad >= 2 THEN pads + 1 ELSE pads, out))
    ELSE IF s[1] \notin Range(B64Alphabet) THEN
        a2b_base64(Tail(s), quad, left, pads, out)
    ELSE
        LET c == IndexOf(s[1], B64Alphabet) - 1
        IN  CASE quad = 0 -> a2b_base64(Tail(s), 1, c, 0, out)
              [] quad = 1 ->
                    a2b_base64(Tail(s), 2, c % 16, 0,
                               Append(out, left * 4 + c \div 16))
              [] quad = 2 ->
                    a2b_base64(Tail(s), 3, c % 4, 0,
                               Append(out, left * 16 + c \div 4))
              [] quad = 3 ->
                    a2b_base64(Tail(s), 0, 0, 0, Append(out, left * 64 + c))

\* the characters of the model are ASCII, so the str encodes
b64decode(s) == a2b_base64(s, 0, 0, 0, << >>)

---------------------------------------------------------------------------
(* The store (gallery.db).  A row of a table is a record of column values  *)
(* as SELECT returns them: None, int, str or bytes.                        *)

NoTables == [tables |-> FALSE, folders |-> << >>, images |-> << >>,
             surveys |-> << >>]

\* what sqlite3 stores for a bound Python value in a TEXT column: numbers
\* are converted to text, None is NULL, a list or a dict cannot be bound
BindText(v) ==
    CASE v.t = "str" -> Ok(v)
      [] v.t = "int" -> Ok(StrV(IntToChars(v.i)))
      [] v.t = "bool" -> Ok(StrV(IntToChars(v.i)))
      [] v.t = "float" -> Ok(StrV(FloatToChars(v.i)))
      [] v.t = "none" -> Ok(NoneV)
      [] v.t = "bytes" -> Ok(v)
      [] OTHER -> Raise

\* what sqlite3 stores in an INTEGER or BOOLEAN column: a bool is 0 or 1
BindNumeric(v) ==
    CASE v.t = "int" -> Ok(v)
      [] v.t = "bool" -> Ok(IntV(v.i))
      [] v.t = "none" -> Ok(NoneV)
      [] OTHER -> Raise

\* every binding succeeded and no NOT NULL column gets NULL
Bound(results) ==
    \A k \in DOMAIN results : results[k].ok /\ results[k].v.t # "none"

\* the result of a statement: the table after it, or the exception
Done(rows) == [ok |-> TRUE, rows |-> rows]

Failed(rows) == [ok |-> FALSE, rows |-> rows]

\* INSERT INTO folders without the UNIQUE constraint on folder
FolderRowAdded_no_unique(rows, f, n, a, p, c) ==
    IF ~Bound(<<f, n, a, p, c>>) THEN Failed(rows)
    ELSE Done(Append(rows, [folder |-> f.v, name |-> n.v, age |-> a.v,
                            profession |-> p.v, category |-> c.v]))

\* the folders table after the row of bound values f, n, a, p, c is added:
\* every column is NOT NULL and folder is UNIQUE
FolderRowAdded(rows, f, n, a, p, c) ==
    IF ~Bound(<<f, n, a, p, c>>) THEN Failed(rows)
    ELSE IF \E k \in DOMAIN rows : rows[k].folder = f.v THEN Failed(rows)
    ELSE Done(Append(rows, [folder |-> f.v, name |-> n.v, age |-> a.v,
                            profession |-> p.v, category |-> c.v]))

\* an INSERT INTO folders that no constraint stops
InsertFolder_no_constraint(rows, folder, name, age, profession, category) ==
    Done(Append(rows, [folder |-> folder, name |-> name, age |-> age,
                       profession |-> profession, category |-> category]))

\* INSERT INTO folders (folder, name, age, profession, category)
InsertFolder(rows, folder, name, age, profession, category) ==
    FolderRowAdded(rows, BindText(folder), BindText(name), BindNumeric(age),
                   BindText(profession), BindText(category))

\* INSERT INTO images (name, folder, image_data, download_allowed): every
\* column is NOT NULL; the foreign key on folder is not enforced
ImageRowAdded(rows, n, f, image_data, d) ==
    IF ~Bound(<<n, f, Ok(image_data), d>>) THEN Failed(rows)
    ELSE Done(Append(rows, [name |-> n.v, folder |-> f.v,
                            image_data |-> image_data,
                            download_allowed |-> d.v]))

InsertImage(rows, name, folder, image_data, download_allowed) ==
    ImageRowAdded(rows, BindText(name), BindText(folder), image_data,
                  BindNumeric(download_allowed))

\* INSERT INTO surveys (folder, rating, feedback, timestamp): feedback may
\* be NULL
SurveyRowAdded(rows, f, r, b, t) ==
    IF ~Bound(<<f, r, t>>) \/ ~b.ok THEN Failed(rows)
    ELSE Done(Append(rows, [folder |-> f.v, rating |-> r.v,
                            feedback |-> b.v, timestamp |-> t.v]))

InsertSurvey(rows, folder, rating, feedback, timestamp) ==
    SurveyRowAdded(rows, BindText(folder), BindNumeric(rating),
                   BindText(feedback), BindText(timestamp))

---------------------------------------------------------------------------
(* The snapshot.  The Python value that serialize_db builds and json.loads *)
(* returns is [t, folders, images, surveys]: t = "dict" for a dict, and    *)
(* each key is [t, rows] with t = "list" for a list, "missing" for a key   *)
(* that is not there and "other" for any other value.  A row is            *)
(* [kind, <fields>] with kind = "dict" for a dict, whose absent keys hold  *)
(* MissingV, and "other" for any other value.  The JSON text has the same  *)
(* structure with JSON values: null, true, false, an integer or a real      *)
(* literal, a string, an array.                                            *)

NoList == [t |-> "missing", rows |-> << >>]

ListOf(rows) == [t |-> "list", rows |-> rows]

NotAList == [t |-> "other", rows |-> << >>]

Dict(folders, images, surveys) ==
    [t |-> "dict", folders |-> folders, images |-> images, surveys |-> surveys]

NotADict == [t |-> "other", folders |-> NoList, images |-> NoList,
             surveys |-> NoList]

\* json.dump of one value
JsonOfValue(v) ==
    CASE v.t = "none" -> Val("null", 0, << >>, << >>)
      [] v.t = "bool" -> Val(IF v.i = 1 THEN "true" ELSE "false", 0, << >>, << >>)
      [] v.t = "int" -> Val("integer", v.i, << >>, << >>)
      [] v.t = "float" -> Val("real", v.i, << >>, << >>)
      [] v.t = "str" -> Val("string", 0, v.s, << >>)
      [] v.t = "list" -> Val("array", 0, << >>, << >>)
      [] v.t = "missing" -> v

\* json.loads of one value
ValueOfJson(j) ==
    CASE j.t = "null" -> NoneV
      [] j.t = "true" -> BoolV(TRUE)
      [] j.t = "false" -> BoolV(FALSE)
      [] j.t = "integer" -> IntV(j.i)
      [] j.t = "real" -> FloatV(j.i)
      [] j.t = "string" -> StrV(j.s)
      [] j.t = "array" -> ListV
      [] j.t = "missing" -> j

\* json.dump of the elements of a list
JsonOfRows(c) ==
    [t |-> c.t,
     rows |-> [k \in DOMAIN c.rows |->
                [f \in DOMAIN c.rows[k] |->
                    IF f = "kind" THEN c.rows[k][f] ELSE JsonOfValue(c.rows[k][f])]]]

\* json.loads of the elements of an array
RowsOfJson(c) ==
    [t |-> c.t,
     rows |-> [k \in DOMAIN c.rows |->
                [f \in DOMAIN c.rows[k] |->
                    IF f = "kind" THEN c.rows[k][f] ELSE ValueOfJson(c.rows[k][f])]]]

\* json.dump(data, f): the text of the file
json_dump(data) ==
    [k |-> "json",
     v |-> [t |-> data.t,
            folders |-> JsonOfRows(data.folders),
            images |-> JsonOfRows(data.images),
            surveys |-> JsonOfRows(data.surveys)]]

\* json.loads(raw) of a text that is JSON
json_loads(raw) ==
    [t |-> raw.v.t,
     folders |-> RowsOfJson(raw.v.folders),
     images |-> RowsOfJson(raw.v.images),
     surveys |-> RowsOfJson(raw.v.surveys)]

\* texts that are not JSON: the empty text, whitespace, anything else
EmptyText == [k |-> "empty", v |-> NotADict]

WhitespaceText == [k |-> "ws", v |-> NotADict]

GarbageText == [k |-> "garbage", v |-> NotADict]

NoFile == [exists |-> FALSE, raw |-> EmptyText]

FileOf(raw) == [exists |-> TRUE, raw |-> raw]

\* serialize_db(): the three tables in full, in rowid order, each image
\* blob as base64 text
serialize_db(st) ==
    Dict(ListOf([k \in DOMAIN st.folders |->
                    [kind |-> "dict"] @@ st.folders[k]]),
         ListOf([k \in DOMAIN st.images |->
                    [kind |-> "dict"] @@
                    [st.images[k] EXCEPT
                        !.image_data = StrV(b64encode(st.images[k].image_data.b))]]),
         ListOf([k \in DOMAIN st.surveys |->
                    [kind |-> "dict"] @@ st.surveys[k]]))

---------------------------------------------------------------------------
(* restore_db.                                                             *)

NoneSkipped == [folders |-> 0, images |-> 0, surveys |-> 0]

\* what a call of restore_db did: the store it leaves, how it ended, the
\* skipped counts of its "Restore complete" message (reported), and
\* whether the schema statements failed
RestoreResult(st, outcome, skipped, reported, schema_failure) ==
    [store |-> st, outcome |-> outcome, skipped |-> skipped,
     reported |-> reported, schema_failure |-> schema_failure]

\* an early return that is taken after the tables were dropped and created
NoRestore_after_drop(st, why) ==
    RestoreResult([tables |-> TRUE, folders |-> << >>, images |-> << >>,
                   surveys |-> << >>],
                  why, NoneSkipped, FALSE, FALSE)

\* a format check that is made after the tables were dropped and created
AbortRestore_after_drop(st, why) ==
    RestoreResult([tables |-> TRUE, folders |-> << >>, images |-> << >>,
                   surveys |-> << >>],
                  why, NoneSkipped, FALSE, FALSE)

\* the early returns of an absent or empty file: nothing is opened
NoRestore(st, why) == RestoreResult(st, why, NoneSkipped, FALSE, FALSE)

\* the early returns of a text that is not a snapshot: nothing is opened
AbortRestore(st, why) == RestoreResult(st, why, NoneSkipped, FALSE, FALSE)

\* a rollback that undoes the INSERT statements only
Rollback_inserts_only(st, schema_failure) ==
    RestoreResult([tables |-> ~schema_failure, folders |-> << >>,
                   images |-> << >>, surveys |-> << >>],
                  "rolled_back", NoneSkipped, FALSE, schema_failure)

\* conn.rollback(): the DROP, CREATE and INSERT statements since BEGIN are
\* undone
Rollback(st, schema_failure) ==
    RestoreResult(st, "rolled_back", NoneSkipped, FALSE, schema_failure)

\* the loop over the keys: the first key that is missing or is not a list
ShapeError(backup) ==
    CASE backup.folders.t = "missing" -> "missing_key"
      [] backup.folders.t # "list" -> "not_list"
      [] backup.images.t = "missing" -> "missing_key"
      [] backup.images.t # "list" -> "not_list"
      [] backup.surveys.t = "missing" -> "missing_key"
      [] backup.surveys.t # "list" -> "not_list"
      [] OTHER -> "ok"

\* the state of one of the three loops: the table so far, the rows
\* skipped, and whether an exception left the loop
Loop(rows, skipped, escaped) ==
    [rows |-> rows, skipped |-> skipped, escaped |-> escaped]

\* the try block of a folder row.  fld["folder"] raises for a row that is
\* not a dict (TypeError) and for an absent key (KeyError); int() raises
\* for an age it cannot convert; the INSERT raises on a constraint.
InsertRestoredFolder(rows, fld, age) ==
    IF ~age.ok THEN Failed(rows)
    ELSE InsertFolder(rows, fld.folder, fld.name, age.v, fld.profession,
                      fld.category)

RestoreFolderRow(rows, fld) ==
    IF fld.kind # "dict" THEN Failed(rows)
    ELSE IF MissingV \in {fld.folder, fld.name, fld.age, fld.profession,
                          fld.category} THEN Failed(rows)
    ELSE InsertRestoredFolder(rows, fld, PyInt(fld.age))

\* the loop after a row whose try block ended as r: a row that raised is
\* counted as skipped
Counted(acc, r) ==
    Loop(r.rows, IF r.ok THEN acc.skipped ELSE acc.skipped + 1, FALSE)

RECURSIVE RestoreFolders(_, _)
\* for idx, fld in enumerate(backup["folders"]): a row that raises is
\* counted and the loop goes on
RestoreFolders(todo, acc) ==
    IF todo = << >> THEN acc
    ELSE RestoreFolders(Tail(todo),
                        Counted(acc, RestoreFolderRow(acc.rows, Head(todo))))

\* the try block of an image row.  img.get("image_data") is None for an
\* absent key; a value that is not a str, or is blank, raises ValueError;
\* b64decode raises on bad padding; download_allowed defaults to 1.
InsertRestoredImage(rows, img, data, allowed) ==
    IF ~data.ok \/ ~allowed.ok THEN Failed(rows)
    ELSE InsertImage(rows, img.name, img.folder, data.v, allowed.v)

RestoreImageRow(rows, img) ==
    IF img.kind # "dict" THEN Failed(rows)
    ELSE IF MissingV \in {img.name, img.folder} THEN Failed(rows)
    ELSE IF img.image_data.t # "str" \/ IsBlank(img.image_data.s)
         THEN Failed(rows)
    ELSE InsertRestoredImage(rows, img, b64decode(img.image_data.s),
                             IF img.download_allowed = MissingV THEN Ok(IntV(1))
                             ELSE PyInt(img.download_allowed))

\* the except block of an image row: the warning evaluates
\* img.get('name'), which raises AttributeError for a row that is not a
\* dict; that exception is raised inside the handler and leaves the loop
ImageHandlerRaises(img) == img.kind # "dict"

\* the loop after an image row whose try block ended as r: when the
\* except block itself raises, the exception leaves the loop
AfterImageRow(acc, r, handler_raises) ==
    IF r.ok THEN Loop(r.rows, acc.skipped, FALSE)
    ELSE Loop(acc.rows, acc.skipped + 1, handler_raises)

RECURSIVE RestoreImages(_, _)
\* for idx, img in enumerate(backup["images"])
RestoreImages(todo, acc) ==
    IF todo = << >> \/ acc.escaped THEN acc
    ELSE RestoreImages(Tail(todo),
                       AfterImageRow(acc, RestoreImageRow(acc.rows, Head(todo)),
                                     ImageHandlerRaises(Head(todo))))

\* the try block of a survey row: s.get("feedback") is None for an absent
\* key
InsertRestoredSurvey(rows, sv, rating) ==
    IF ~rating.ok THEN Failed(rows)
    ELSE InsertSurvey(rows, sv.folder, rating.v,
                      IF sv.feedback = MissingV THEN NoneV ELSE sv.feedback,
                      sv.timestamp)

RestoreSurveyRow(rows, sv) ==
    IF sv.kind # "dict" THEN Failed(rows)
    ELSE IF MissingV \in {sv.folder, sv.rating, sv.timestamp} THEN Failed(rows)
    ELSE InsertRestoredSurvey(rows, sv, PyInt(sv.rating))

RECURSIVE RestoreSurveys(_, _)
\* for idx, s in enumerate(backup["surveys"])
RestoreSurveys(todo, acc) ==
    IF todo = << >> THEN acc
    ELSE RestoreSurveys(Tail(todo),
                        Counted(acc, RestoreSurveyRow(acc.rows, Head(todo))))

\* the transaction: BEGIN, drop and create the three tables, the three
\* loops, commit; any exception that reaches the outer handler rolls back.
\* schema_fault: a DROP or CREATE statement raises.
\* f, i, s: how the three loops ended
Committed(st, f, i, s) ==
    IF i.escaped THEN Rollback(st, FALSE)
    ELSE RestoreResult(
            [tables |-> TRUE, folders |-> f.rows, images |-> i.rows,
             surveys |-> s.rows],
            "complete",
            [folders |-> f.skipped, images |-> i.skipped, surveys |-> s.skipped],
            TRUE, FALSE)

Rebuild(st, backup, schema_fault) ==
    IF schema_fault THEN Rollback(st, TRUE)
    ELSE Committed(st,
            RestoreFolders(backup.folders.rows, Loop(<< >>, 0, FALSE)),
            RestoreImages(backup.images.rows, Loop(<< >>, 0, FALSE)),
            RestoreSurveys(backup.surveys.rows, Loop(<< >>, 0, FALSE)))

\* the checks of the parsed text (lines 87-95), then the transaction
RestoreParsed(st, backup, shape, schema_fault) ==
    IF backup.t # "dict" THEN AbortRestore(st, "not_dict")
    ELSE IF shape # "ok" THEN AbortRestore(st, shape)
    ELSE Rebuild(st, backup, schema_fault)

\* restore_db(): st is the store and f the snapshot file when it is called
restore_db(st, f, schema_fault) ==
    IF ~f.exists THEN NoRestore(st, "absent")
    ELSE IF f.raw.k \in {"empty", "ws"} THEN NoRestore(st, "empty")
    ELSE IF f.raw.k # "json" THEN AbortRestore(st, "bad_json")
    ELSE RestoreParsed(st, json_loads(f.raw), ShapeError(json_loads(f.raw)),
                       schema_fault)

---------------------------------------------------------------------------
(* _parse_github_repo_info.                                                *)

RECURSIVE SplitOn(_, _)
\* s.split(c)
SplitOn(s, c) ==
    IF c \notin Range(s) THEN <<s>>
    ELSE LET k == CHOOSE j \in DOMAIN s :
                    s[j] = c /\ \A m \in 1..(j - 1) : s[m] # c
         IN  <<SubSeq(s, 1, k - 1)>> \o SplitOn(SubSeq(s, k + 1, Len(s)), c)

RECURSIVE RemoveAll(_, _)
\* s.replace(pat, "")
RemoveAll(s, pat) ==
    IF Len(s) < Len(pat) THEN s
    ELSE IF SubSeq(s, 1, Len(pat)) = pat
         THEN RemoveAll(SubSeq(s, Len(pat) + 1, Len(s)), pat)
    ELSE <<s[1]>> \o RemoveAll(Tail(s), pat)

DotGit == <<".", "g", "i", "t">>

\* ([^/]+?)(?:\.git)?$ on a text without "/": the shortest group of at
\* least one character after which an optional ".git" reaches "$"
RepoGroup(tail) ==
    LET fits(n) ==
            LET r == SubSeq(tail, n + 1, Len(tail))
            IN  r \in {<< >>, <<NL>>, DotGit, DotGit \o <<NL>>}
    IN  IF \E n \in 1..Len(tail) : fits(n)
        THEN SubSeq(tail, 1,
                    CHOOSE n \in 1..Len(tail) :
                        fits(n) /\ \A m \in 1..(n - 1) : ~fits(m))
        ELSE << >>

NoRepo == [owner |-> NoneV, repo |-> NoneV]

\* the match of owner/repo after position p of the first or second pattern:
\* parts are the "/"-separated parts that follow the host
OwnerRepo(parts) ==
    IF Len(parts) = 2 /\ parts[1] # << >> /\ RepoGroup(parts[2]) # << >>
    THEN [owner |-> StrV(parts[1]), repo |-> StrV(RepoGroup(parts[2]))]
    ELSE NoRepo

\* re.search(r'https?://[^/]+/([^/]+)/([^/]+?)(?:\.git)?$', repo_url)
\* tried at position p
WebUrlAt(url, p) ==
    LET rest == SubSeq(url, p, Len(url))
        http == <<"h", "t", "t", "p", ":", "/", "/">>
        https == <<"h", "t", "t", "p", "s", ":", "/", "/">>
        after == IF StartsWith(rest, https)
                 THEN SubSeq(rest, Len(https) + 1, Len(rest))
                 ELSE SubSeq(rest, Len(http) + 1, Len(rest))
        parts == SplitOn(after, "/")
    IN  IF (StartsWith(rest, https) \/ StartsWith(rest, http))
            /\ Len(parts) = 3 /\ parts[1] # << >>
        THEN OwnerRepo(Tail(parts))
        ELSE NoRepo

\* re.search(r'git@[^:]+:([^/]+)/([^/]+?)(?:\.git)?$', repo_url) tried at
\* position p
SshUrlAt(url, p) ==
    LET rest == SubSeq(url, p, Len(url))
        git == <<"g", "i", "t", "@">>
        after == SubSeq(rest, Len(git) + 1, Len(rest))
        host == Head(SplitOn(after, ":"))
        path == SubSeq(after, Len(host) + 2, Len(after))
    IN  IF StartsWith(rest, git) /\ ":" \in Range(after) /\ host # << >>
        THEN OwnerRepo(SplitOn(path, "/"))
        ELSE NoRepo

\* re.search: the match at the leftmost position that has one
\* (ms[p] is the match at position p, or NoRepo)
FirstMatch(ms) ==
    IF \E p \in DOMAIN ms : ms[p] # NoRepo
    THEN ms[CHOOSE p \in DOMAIN ms :
                ms[p] # NoRepo /\ \A q \in 1..(p - 1) : ms[q] = NoRepo]
    ELSE NoRepo

\* the first of the three forms that matches
OrElse(a, b, c) == IF a # NoRepo THEN a ELSE IF b # NoRepo THEN b ELSE c

\* if "/" in repo_url: the two parts of owner/repo
ShortForm(parts) ==
    IF Len(parts) = 2
    THEN [owner |-> StrV(parts[1]), repo |-> StrV(RemoveAll(parts[2], DotGit))]
    ELSE NoRepo

\* _parse_github_repo_info(repo_url): (owner, repo), or (None, None)
parse_github_repo_info(repo_url) ==
    IF repo_url.t # "str" \/ repo_url.s = << >> THEN NoRepo
    ELSE OrElse(FirstMatch([p \in DOMAIN repo_url.s |-> WebUrlAt(repo_url.s, p)]),
                FirstMatch([p \in DOMAIN repo_url.s |-> SshUrlAt(repo_url.s, p)]),
                ShortForm(SplitOn(Strip(repo_url.s), "/")))

\* "not v" for None and for a str
Falsy(v) == v.t = "none" \/ (v.t = "str" /\ v.s = << >>)

\* if not owner or not repo
NoRepoIn(info) == Falsy(info.owner) \/ Falsy(info.repo)

---------------------------------------------------------------------------
(* commit_backup_api.  The remote host holds the file as [exists,          *)
(* content]; the revision pointer (sha) of a file is determined by its     *)
(* content, so the pointer is modelled by the content it names.  env is    *)
(* what the network and the host do during one call:                       *)
(*   auth      the status of GET /user,                                    *)
(*   fetch     0 when the host answers the GET of the file as it has it    *)
(*             (200 or 404), else the status of a failing answer,          *)
(*   race      another writer replaces the remote file between the GET     *)
(*             and the PUT,                                                *)
(*   put       0 when the host decides the PUT on the pointer, else the    *)
(*             status of a failing answer,                                 *)
(*   raise_at  the request ("probe", "fetch", "put") at which requests     *)
(*             raises an exception, or "none".                             *)

NoRemote == [exists |-> FALSE, content |-> EmptyText]

\* a host that keeps a text other than the one it was sent
RemoteOf_other_text(content) == [exists |-> TRUE, content |-> GarbageText]

RemoteOf(content) == [exists |-> TRUE, content |-> content]

\* a request that was sent: whether its payload has the key "sha", and the
\* status_code of its response (0 when the call raised instead)
Request(method, target, with_sha, status) ==
    [method |-> method, target |-> target, with_sha |-> with_sha,
     status |-> status]

\* what a call leaves; raced tells that another writer changed the remote
\* file between the GET of the contents and the PUT
PushResult(rem, outcome, requests) ==
    [remote |-> rem, outcome |-> outcome, requests |-> requests, raced |-> FALSE]

TokenPrefixes == {<<"g", "h", "p", "_">>,
                  <<"g", "i", "t", "h", "u", "b", "_", "p", "a", "t", "_">>}

\* a host that writes whatever pointer the PUT carries
PutStatus_any_pointer(rem, with_sha, sha) ==
    IF rem.exists THEN 200 ELSE 201

\* the answer of the host to the PUT: 200 or 201 when the pointer sent is
\* the one of the file it has (none for a file it does not have), 409 for
\* a stale pointer, 422 for a missing one
PutStatus(rem, with_sha, sha) ==
    IF ~rem.exists THEN (IF with_sha THEN 422 ELSE 201)
    ELSE IF ~with_sha THEN 422
    ELSE IF sha = rem.content THEN 200
    ELSE 409

\* a gate that lets a 403 of the identity probe pass
Authenticated_but_403(status) == status \in {200, 403}

\* if auth_test.status_code != 200: ... return
Authenticated(status) == status = 200

\* the answer of the host to the GET of the contents: 200 for a file it
\* has, 404 for one it does not have, or the status the environment forces
FetchStatus(rem, env) ==
    IF env.fetch # 0 THEN env.fetch ELSE IF rem.exists THEN 200 ELSE 404

\* a payload that never has the key "sha"
HasSha_never(fetch_status) == FALSE

\* sha = response.json().get("sha") for a 200; if sha: payload["sha"] = sha
HasSha(fetch_status) == fetch_status = 200

\* a push that sends the PUT a second time when the first one is refused
PushRequests_put_again(content, rem, env) ==
    LET probe == Request("GET", "user", FALSE, env.auth)
        fetched == FetchStatus(rem, env)
        fetch == Request("GET", "contents", FALSE, fetched)
        found == HasSha(fetched)
        rem2 == IF env.race THEN RemoteOf(GarbageText) ELSE rem
        status == IF env.put = 0 THEN PutStatus(rem2, found, rem.content)
                  ELSE env.put
        put == Request("PUT", "contents", found, status)
    IN  IF env.raise_at # "none" THEN PushResult(rem, "exception", <<probe>>)
        ELSE IF ~Authenticated(env.auth)
             THEN PushResult(rem, "auth_other", <<probe>>)
        ELSE IF fetched \notin {200, 404}
             THEN PushResult(rem, "fetch_failed", <<probe, fetch>>)
        ELSE IF status \in {200, 201}
             THEN PushResult(RemoteOf(content), "committed", <<probe, fetch, put>>)
        ELSE PushResult(rem2, "put_failed", <<probe, fetch, put, put>>)

\* the requests of commit_backup_api once the preconditions passed
PushRequests(content, rem, env) ==
    LET probe == Request("GET", "user", FALSE,
                         IF env.raise_at = "probe" THEN 0 ELSE env.auth)
        fetched == FetchStatus(rem, env)
        fetch == Request("GET", "contents", FALSE,
                         IF env.raise_at = "fetch" THEN 0 ELSE fetched)
        found == HasSha(fetched)
        rem2 == IF env.race THEN RemoteOf(GarbageText) ELSE rem
        status == IF env.put = 0 THEN PutStatus(rem2, found, rem.content)
                  ELSE env.put
        put == Request("PUT", "contents", found,
                       IF env.raise_at = "put" THEN 0 ELSE status)
    IN  IF env.raise_at = "probe" THEN PushResult(rem, "exception", <<probe>>)
        ELSE IF ~Authenticated(env.auth)
             THEN PushResult(rem,
                             IF env.auth = 401 THEN "auth_401"
                             ELSE IF env.auth = 403 THEN "auth_403"
                             ELSE "auth_other",
                             <<probe>>)
        ELSE IF env.raise_at = "fetch"
             THEN PushResult(rem, "exception", <<probe, fetch>>)
        ELSE IF fetched \notin {200, 404}
             THEN PushResult(rem, "fetch_failed", <<probe, fetch>>)
        ELSE IF env.raise_at = "put"
             THEN [PushResult(rem2, "exception", <<probe, fetch, put>>)
                    EXCEPT !.raced = rem2 # rem]
        ELSE IF status \in {200, 201}
             THEN [PushResult(RemoteOf(content), "committed", <<probe, fetch, put>>)
                    EXCEPT !.raced = rem2 # rem]
        ELSE [PushResult(rem2, "put_failed", <<probe, fetch, put>>)
                EXCEPT !.raced = rem2 # rem]

\* a push that probes the identity endpoint before it looks at the local
\* snapshot file
commit_backup_api_probe_first(cfg, f, rem, env) ==
    IF Falsy(cfg.GITHUB_TOKEN) THEN PushResult(rem, "no_token", << >>)
    ELSE IF ~\E pre \in TokenPrefixes : StartsWith(cfg.GITHUB_TOKEN.s, pre)
         THEN PushResult(rem, "bad_token", << >>)
    ELSE IF Falsy(cfg.REPO_URL) THEN PushResult(rem, "no_repo_url", << >>)
    ELSE IF ~f.exists
         THEN PushResult(rem, "no_file", <<Request("GET", "user", FALSE, 200)>>)
    ELSE IF f.raw.k \in {"empty", "ws"}
         THEN PushResult(rem, "empty_file", <<Request("GET", "user", FALSE, 200)>>)
    ELSE PushRequests(f.raw, rem, env)

\* commit_backup_api(): the preconditions in the order of the code, then
\* the requests
commit_backup_api(cfg, f, rem, env) ==
    IF Falsy(cfg.GITHUB_TOKEN) THEN PushResult(rem, "no_token", << >>)
    ELSE IF ~\E pre \in TokenPrefixes : StartsWith(cfg.GITHUB_TOKEN.s, pre)
         THEN PushResult(rem, "bad_token", << >>)
    ELSE IF Falsy(cfg.REPO_URL) THEN PushResult(rem, "no_repo_url", << >>)
    ELSE IF ~f.exists THEN PushResult(rem, "no_file", << >>)
    ELSE IF NoRepoIn(parse_github_repo_info(cfg.REPO_URL))
         THEN PushResult(rem, "bad_repo_url", << >>)
    ELSE IF f.raw.k \in {"empty", "ws"}
         THEN PushResult(rem, "empty_file", << >>)
    ELSE PushRequests(f.raw, rem, env)

\* what the network and the host can do during one call
PushEnvs ==
    {[auth |-> a, fetch |-> 0, race |-> FALSE, put |-> 0, raise_at |-> "none"] :
        a \in {401, 403, 500}}
    \cup {[auth |-> 200, fetch |-> 500, race |-> FALSE, put |-> 0,
           raise_at |-> "none"]}
    \cup {[auth |-> 200, fetch |-> 0, race |-> r, put |-> p, raise_at |-> "none"] :
            r \in BOOLEAN, p \in {0, 403, 500}}
    \cup {[auth |-> 200, fetch |-> 0, race |-> FALSE, put |-> 0, raise_at |-> x] :
            x \in {"probe", "fetch", "put"}}

---------------------------------------------------------------------------
(* save_backup and init_db.                                                *)

\* what a function that ends in save_backup leaves: the store, the file,
\* the remote, the result of the push and the steps in the order they ran
World(st, f, push, stepsRun) ==
    [store |-> st, file |-> f, remote |-> push.remote, push |-> push,
     steps |-> stepsRun]

\* a writer that lists the folders from the last row to the first
WriteSnapshot_folders_reversed(st) ==
    FileOf(json_dump(serialize_db(
        [st EXCEPT !.folders = [k \in DOMAIN @ |-> @[Len(@) + 1 - k]]])))

\* the file that save_backup writes
WriteSnapshot(st) == FileOf(json_dump(serialize_db(st)))

\* a save that removes the file it wrote when the push did not commit it
Pushed_unlink_on_failure(st, written, rem, cfg, env, stepsRun) ==
    World(st,
          IF commit_backup_api(cfg, written, rem, env).outcome = "committed"
          THEN written ELSE NoFile,
          commit_backup_api(cfg, written, rem, env), stepsRun)

\* the push of the file that was just written
Pushed(st, written, rem, cfg, env, stepsRun) ==
    World(st, written, commit_backup_api(cfg, written, rem, env), stepsRun)

\* a save_backup that pushes without writing the file
save_backup_no_write(st, f, rem, cfg, env, before) ==
    World(st, f, commit_backup_api(cfg, f, rem, env),
          before \o <<"serialize_db", "push">>)

\* save_backup(): serialize_db, write the file, commit_backup_api
save_backup(st, f, rem, cfg, env, before) ==
    Pushed(st, WriteSnapshot(st), rem, cfg, env,
           before \o <<"serialize_db", "write", "push">>)

\* an operation that returns without saving
Unsaved(st, f, rem, stepsRun) ==
    World(st, f, PushResult(rem, "not_called", << >>), stepsRun)

sarika == <<"s", "a", "r", "i", "k", "a">>

jamuna == <<"j", "a", "m", "u", "n", "a">>

Artists == <<"A", "r", "t", "i", "s", "t", "s">>

\* default_folders
DefaultFolders ==
    <<[folder |-> StrV(sarika), name |-> StrV(<<"S", "a", "r", "i", "k", "a">>),
       age |-> IntV(28),
       profession |-> StrV(<<"P", "h", "o", "t", "o", "g", "r", "a", "p", "h",
                             "e", "r">>),
       category |-> StrV(Artists)],
      [folder |-> StrV(jamuna), name |-> StrV(<<"J", "a", "m", "u", "n", "a">>),
       age |-> IntV(32),
       profession |-> StrV(<<"S", "c", "u", "l", "p", "t", "o", "r">>),
       category |-> StrV(Artists)]>>

\* SELECT COUNT(*) FROM folders WHERE folder = ?, and the INSERT when the
\* count is 0
EnsureFolder(rows, d) ==
    IF \E k \in DOMAIN rows : rows[k].folder = d.folder THEN rows
    ELSE InsertFolder(rows, d.folder, d.name, d.age, d.profession,
                      d.category).rows

RECURSIVE EnsureFolders(_, _)
\* for folder_data in default_folders: insert it when no row has its slug
EnsureFolders(rows, todo) ==
    IF todo = << >> THEN rows
    ELSE EnsureFolders(EnsureFolder(rows, Head(todo)), Tail(todo))

\* an init_db that creates the folders table anew
Seeded_anew(st) ==
    [st EXCEPT !.tables = TRUE, !.folders = EnsureFolders(<< >>, DefaultFolders)]

\* init_db(): restore_db, CREATE TABLE IF NOT EXISTS, the default folders,
\* commit, save_backup
Seeded(st) ==
    [st EXCEPT !.tables = TRUE, !.folders = EnsureFolders(@, DefaultFolders)]

\* an init_db that leaves the snapshot file as it found it
Initialised_file_kept(r, f, rem, cfg, env) ==
    [restore |-> r] @@
    Unsaved(Seeded(r.store), f, rem,
            <<"restore_db", "commit", "serialize_db", "write", "push">>)

\* init_db after its call of restore_db returned r
Initialised(r, f, rem, cfg, env) ==
    [restore |-> r] @@
    save_backup(Seeded(r.store), f, rem, cfg, env, <<"restore_db", "commit">>)

\* an init_db that ensures the default folders before it restores
init_db_seed_first(st, f, rem, cfg, env, schema_fault) ==
    [restore |-> restore_db(Seeded(st), f, schema_fault)] @@
    save_backup([restore_db(Seeded(st), f, schema_fault).store
                    EXCEPT !.tables = TRUE],
                f, rem, cfg, env, <<"restore_db", "commit">>)

init_db(st, f, rem, cfg, env, schema_fault) ==
    Initialised(restore_db(st, f, schema_fault), f, rem, cfg, env)

---------------------------------------------------------------------------
(* The functions that change the store.  Each returns [ret, w]: what it    *)
(* returns (FALSE also for an exception that leaves it) and the world it   *)
(* leaves.                                                                 *)

Returned(ret, w) == [ret |-> ret, w |-> w]

\* add_folder after its INSERT ended as r: the IntegrityError returns
\* False before the commit
FolderAdded(st, f, rem, cfg, env, r) ==
    IF ~r.ok THEN Returned(FALSE, Unsaved(st, f, rem, << >>))
    ELSE Returned(TRUE,
            save_backup([st EXCEPT !.folders = r.rows], f, rem, cfg, env,
                        <<"commit">>))

\* add_folder(folder, name, age, profession, category)
add_folder(st, f, rem, cfg, env, folder, name, age, profession, category) ==
    IF ~validate_folder_name(folder)
    THEN Returned(FALSE, Unsaved(st, f, rem, << >>))
    ELSE FolderAdded(st, f, rem, cfg, env,
            InsertFolder(st.folders, StrV(folder), StrV(name), IntV(age),
                         StrV(profession), StrV(category)))

\* Image.open(file): an uploaded file is [valid, jpeg], valid when PIL can
\* open it and jpeg the bytes that img.save(format="JPEG") writes for it
RECURSIVE InsertUploads(_, _, _, _, _)
\* the loop of load_images_to_db: a file whose generated name is already
\* in the folder is not inserted
InsertUploads(rows, files, names, folder, download_allowed) ==
    IF files = << >> THEN rows
    ELSE InsertUploads(
            IF \E k \in DOMAIN rows :
                    rows[k].folder = StrV(folder) /\ rows[k].name = StrV(Head(names))
            THEN rows
            ELSE InsertImage(rows, StrV(Head(names)), StrV(folder),
                             BytesV(Head(files).jpeg), BoolV(download_allowed)).rows,
            Tail(files), Tail(names), folder, download_allowed)

\* load_images_to_db(uploaded_files, folder, download_allowed); names are
\* the uuid4 names it generates.  Image.open raising leaves the function
\* before the commit.
load_images_to_db(st, f, rem, cfg, env, files, names, folder, download_allowed) ==
    IF \E k \in DOMAIN files : ~files[k].valid
    THEN Returned(FALSE, Unsaved(st, f, rem, << >>))
    ELSE Returned(TRUE,
            save_backup([st EXCEPT !.images =
                            InsertUploads(@, files, names, folder, download_allowed)],
                        f, rem, cfg, env, <<"commit">>))

\* swap_image(folder, old_image_name, new_image_file)
swap_image(st, f, rem, cfg, env, folder, old_image_name, new_image_file) ==
    IF ~new_image_file.valid
    THEN Returned(FALSE, Unsaved(st, f, rem, << >>))
    ELSE Returned(TRUE,
            save_backup(
                [st EXCEPT !.images =
                    [k \in DOMAIN @ |->
                        IF @[k].folder = StrV(folder)
                            /\ @[k].name = StrV(old_image_name)
                        THEN [@[k] EXCEPT !.image_data = BytesV(new_image_file.jpeg)]
                        ELSE @[k]]],
                f, rem, cfg, env, <<"commit">>))

\* update_download_permission(folder, image_name, download_allowed)
update_download_permission(st, f, rem, cfg, env, folder, image_name, download_allowed) ==
    Returned(TRUE,
        save_backup(
            [st EXCEPT !.images =
                [k \in DOMAIN @ |->
                    IF @[k].folder = StrV(folder) /\ @[k].name = StrV(image_name)
                    THEN [@[k] EXCEPT !.download_allowed =
                                BindNumeric(BoolV(download_allowed)).v]
                    ELSE @[k]]],
            f, rem, cfg, env, <<"commit">>))

\* a DELETE that has no condition on the folder
delete_image_any_folder(st, f, rem, cfg, env, folder, name) ==
    Returned(TRUE,
        save_backup(
            [st EXCEPT !.images = SelectSeq(@, LAMBDA r : r.name # StrV(name))],
            f, rem, cfg, env, <<"commit">>))

\* delete_image(folder, name)
delete_image(st, f, rem, cfg, env, folder, name) ==
    Returned(TRUE,
        save_backup(
            [st EXCEPT !.images =
                SelectSeq(@, LAMBDA r :
                    ~(r.folder = StrV(folder) /\ r.name = StrV(name)))],
            f, rem, cfg, env, <<"commit">>))

\* save_survey_data(folder, rating, feedback, timestamp)
save_survey_data(st, f, rem, cfg, env, folder, rating, feedback, timestamp) ==
    Returned(TRUE,
        save_backup(
            [st EXCEPT !.surveys =
                InsertSurvey(@, StrV(folder), IntV(rating), StrV(feedback),
                             StrV(timestamp)).rows],
            f, rem, cfg, env, <<"commit">>))

\* a delete that looks at the timestamp only
delete_survey_entry_any_folder(st, f, rem, cfg, env, folder, timestamp) ==
    Returned(TRUE,
        save_backup(
            [st EXCEPT !.surveys =
                SelectSeq(@, LAMBDA r : r.timestamp # StrV(timestamp))],
            f, rem, cfg, env, <<"commit">>))

\* delete_survey_entry(folder, timestamp)
delete_survey_entry(st, f, rem, cfg, env, folder, timestamp) ==
    Returned(TRUE,
        save_backup(
            [st EXCEPT !.surveys =
                SelectSeq(@, LAMBDA r :
                    ~(r.folder = StrV(folder) /\ r.timestamp = StrV(timestamp)))],
            f, rem, cfg, env, <<"commit">>))

\* load_folders(): the slugs of the folders
load_folders(st) == [k \in DOMAIN st.folders |-> st.folders[k].folder.s]

\* PIL opens the bytes: they start with the JPEG marker
IsImage(b) == StartsWith(b, <<255, 216>>)

\* get_images(folder): the rows of the folder that PIL can open
get_images(st, folder) ==
    SelectSeq(st.images, LAMBDA r :
        r.folder = StrV(folder) /\ r.image_data.t = "bytes" /\ IsImage(r.image_data.b))

---------------------------------------------------------------------------
(* The script (module level of dristeeApp3.py).  Every interaction runs    *)
(* the script from the top: init_db() (pc = "boot"), then the handler of   *)
(* the widget that was used (pc = "ui").                                   *)

\* the rows the uploads and the survey forms of a run may add in all
MaxRows == 1

\* ADMIN_PASSWORD (the default)
ADMIN_PASSWORD == <<"a", "d", "m", "i", "n", "1", "2", "3">>

\* a token and a repository location that pass the checks, and the
\* environment without a token
GoodToken == StrV(<<"g", "h", "p", "_", "x">>)

GoodRepoUrl == StrV(<<"h", "t", "t", "p", "s", ":", "/", "/", "h", "/", "o", "/",
                      "r", ".", "g", "i", "t">>)

Config(token, url) == [GITHUB_TOKEN |-> token, REPO_URL |-> url]

\* what the text inputs of the forms hold
Engineer == <<"E", "n", "g", "i", "n", "e", "e", "r">>

\* the files of the uploaders: two that PIL opens and one that it does not
Upload1 == [valid |-> TRUE, jpeg |-> <<255, 216, 255, 224>>]

BadUpload == [valid |-> FALSE, jpeg |-> << >>]

Swapped == [valid |-> TRUE, jpeg |-> <<255, 216, 7>>]

\* uuid4 gives a name that no image has: the first of u1.jpg, u2.jpg, ...
Uuid(n) == <<"u">> \o NatToChars(n) \o <<".", "j", "p", "g">>

uuid4(st) ==
    LET used == {st.images[k].name.s : k \in DOMAIN st.images}
        n == CHOOSE m \in 1..(Len(st.images) + 1) :
                /\ Uuid(m) \notin used
                /\ \A l \in 1..(m - 1) : Uuid(l) \in used
    IN  Uuid(n)

\* datetime.now().isoformat() gives a time that no entry has yet
Stamp(n) == <<"t">> \o NatToChars(n)

now(st) ==
    LET used == {st.surveys[k].timestamp.s : k \in DOMAIN st.surveys}
        n == CHOOSE m \in 1..(Len(st.surveys) + 1) :
                /\ Stamp(m) \notin used
                /\ \A l \in 1..(m - 1) : Stamp(l) \in used
    IN  Stamp(n)

Feedback == <<"o", "k">>

\* a network and a host that answer every request of a script run
ScriptEnvs ==
    {[auth |-> 200, fetch |-> 0, race |-> FALSE, put |-> 0, raise_at |-> "none"]}

Op(op, folder, name, ret) ==
    [op |-> op, folder |-> folder, name |-> name, ret |-> ret]

NoOp == Op("none", << >>, << >>, FALSE)

NoRestoreYet == [outcome |-> "none", skipped |-> NoneSkipped,
                 reported |-> FALSE, schema_failure |-> FALSE]

RestoreInfo(r) == [outcome |-> r.outcome, skipped |-> r.skipped,
                   reported |-> r.reported, schema_failure |-> r.schema_failure]

NoPush == [outcome |-> "none", requests |-> << >>, raced |-> FALSE]

PushInfo(r) == [outcome |-> r.outcome, requests |-> r.requests, raced |-> r.raced]

\* the state a function leaves, and the run goes on to the next interaction
Leaves(r, op, folder, name) ==
    /\ store' = r.w.store
    /\ file' = r.w.file
    /\ remote' = r.w.remote
    /\ lastPush' = PushInfo(r.w.push)
    /\ steps' = r.w.steps
    /\ lastOp' = Op(op, folder, name, r.ret)
    /\ pc' = "boot"
    /\ UNCHANGED <<config, net, is_author, lastRestore, sessions>>

\* the state init_db leaves, and the run goes on to the handlers
Started(w) ==
    /\ store' = w.store
    /\ file' = w.file
    /\ remote' = w.remote
    /\ lastPush' = PushInfo(w.push)
    /\ lastRestore' = RestoreInfo(w.restore)
    /\ steps' = w.steps
    /\ lastOp' = Op("init_db", << >>, << >>, TRUE)
    /\ pc' = "ui"
    /\ UNCHANGED <<config, net, is_author, sessions>>

\* line 540: init_db()
Boot ==
    /\ pc = "boot"
    /\ \E env \in net :
        Started(init_db(store, file, remote, config, env, FALSE))

Login_any_password ==
    /\ pc = "ui"
    /\ \E pwd \in {ADMIN_PASSWORD, <<"g", "u", "e", "s", "s">>} :
        /\ is_author' = TRUE
        /\ lastOp' = Op("login", << >>, << >>, pwd = ADMIN_PASSWORD)
    /\ pc' = "boot"
    /\ steps' = << >>
    /\ UNCHANGED <<store, file, remote, config, net, lastRestore, lastPush,
                   sessions>>

\* lines 553-560: the login form
Login ==
    /\ pc = "ui"
    /\ \E pwd \in {ADMIN_PASSWORD, <<"g", "u", "e", "s", "s">>} :
        /\ is_author' = (IF pwd = ADMIN_PASSWORD THEN TRUE ELSE is_author)
        /\ lastOp' = Op("login", << >>, << >>, pwd = ADMIN_PASSWORD)
    /\ pc' = "boot"
    /\ steps' = << >>
    /\ UNCHANGED <<store, file, remote, config, net, lastRestore, lastPush,
                   sessions>>

\* lines 561-564: the logout button
Logout ==
    /\ pc = "ui"
    /\ is_author
    /\ is_author' = FALSE
    /\ lastOp' = Op("logout", << >>, << >>, TRUE)
    /\ pc' = "boot"
    /\ steps' = << >>
    /\ UNCHANGED <<store, file, remote, config, net, lastRestore, lastPush,
                   sessions>>

\* lines 567-581: the add-folder form with every field filled in
AddFolder ==
    /\ pc = "ui"
    /\ is_author
    /\ \E new_folder \in {<<"A", "b", "c">>, <<"a", "b">>, sarika},
          new_name \in {<<"A", "n", "n">>, <<"B", "o", "b">>},
          env \in net :
        Leaves(add_folder(store, file, remote, config, env, Lower(new_folder),
                          new_name, 30, Engineer, Artists),
               "add_folder", Lower(new_folder), new_name)

\* lines 583-592: the upload button with files chosen
Upload ==
    /\ pc = "ui"
    /\ is_author
    /\ Len(store.images) + Len(store.surveys) < MaxRows
    /\ \E files \in {<<Upload1>>, <<BadUpload>>},
          folder_choice \in Range(load_folders(store)),
          name \in {uuid4(store)}, dl \in BOOLEAN, env \in net :
        Leaves(load_images_to_db(store, file, remote, config, env, files,
                                 <<name>>, folder_choice, dl),
               "load_images_to_db", folder_choice, name)

\* lines 593-604: the swap button with a new file chosen
Swap ==
    /\ pc = "ui"
    /\ is_author
    /\ \E folder_choice \in Range(load_folders(store)),
          new_image \in {Swapped, BadUpload}, env \in net :
        \E img \in Range(get_images(store, folder_choice)) :
            Leaves(swap_image(store, file, remote, config, env, folder_choice,
                              img.name.s, new_image),
                   "swap_image", folder_choice, img.name.s)

\* lines 605-624: the permission form with one checkbox changed
SetPermission ==
    /\ pc = "ui"
    /\ is_author
    /\ \E folder_choice \in Range(load_folders(store)), env \in net :
        \E img \in Range(get_images(store, folder_choice)) :
            Leaves(update_download_permission(
                        store, file, remote, config, env, folder_choice,
                        img.name.s, img.download_allowed.i = 0),
                   "update_download_permission", folder_choice, img.name.s)

\* lines 735-743: the delete button of the image that is viewed
DeleteImage ==
    /\ pc = "ui"
    /\ is_author
    /\ \E folder \in Range(load_folders(store)), env \in net :
        \E img \in Range(get_images(store, folder)) :
            Leaves(delete_image(store, file, remote, config, env, folder,
                                img.name.s),
                   "delete_image", folder, img.name.s)

\* lines 681-688: the survey form of a folder
SubmitSurvey ==
    /\ pc = "ui"
    /\ Len(store.images) + Len(store.surveys) < MaxRows
    /\ \E folder \in Range(load_folders(store)), rating \in {1, 5},
          timestamp \in {now(store)}, env \in net :
        Leaves(save_survey_data(store, file, remote, config, env, folder,
                                rating, Feedback, timestamp),
               "save_survey_data", folder, timestamp)

\* lines 703-708: the delete button of a survey entry
DeleteSurvey ==
    /\ pc = "ui"
    /\ is_author
    /\ \E entry \in Range(store.surveys), env \in net :
        Leaves(delete_survey_entry(store, file, remote, config, env,
                                   entry.folder.s, entry.timestamp.s),
               "delete_survey_entry", entry.folder.s, entry.timestamp.s)

\* a first run on a machine without gallery.db and without a snapshot
Init ==
    /\ store = NoTables
    /\ file = NoFile
    /\ remote = NoRemote
    /\ config \in {Config(GoodToken, GoodRepoUrl), Config(NoneV, GoodRepoUrl)}
    /\ net = ScriptEnvs
    /\ is_author = FALSE
    /\ pc = "boot"
    /\ lastOp = NoOp
    /\ lastRestore = NoRestoreYet
    /\ lastPush = NoPush
    /\ steps = << >>
    /\ sessions = << >>

Next ==
    \/ Boot
    \/ Login
    \/ Logout
    \/ AddFolder
    \/ Upload
    \/ Swap
    \/ SetPermission
    \/ DeleteImage
    \/ SubmitSurvey
    \/ DeleteSurvey

Spec == Init /\ [][Next]_vars

---------------------------------------------------------------------------
(* validate_folder_name on its own: the argument is any text.              *)

\* the longest run of one character in an argument
MaxRun == 21

\* a run of one character of the slug alphabet, then a tail
SlugInputs ==
    {Rep(c, k) \o t :
        c \in {"a", "7", "_"}, k \in 0..MaxRun,
        t \in {<< >>, <<NL>>, <<"A">>, <<" ">>, <<"-">>, <<NL, NL>>, <<NL, "a">>}}

\* the values of the variables that a specification does not use
Quiet ==
    /\ net = ScriptEnvs
    /\ is_author = FALSE
    /\ lastOp = NoOp
    /\ lastRestore = NoRestoreYet
    /\ lastPush = NoPush
    /\ steps = << >>
    /\ sessions = << >>

InitValidate ==
    /\ store = NoTables
    /\ file = NoFile
    /\ remote = NoRemote
    /\ config = Config(NoneV, NoneV)
    /\ net = ScriptEnvs
    /\ is_author = FALSE
    /\ pc = "call"
    /\ lastOp \in {Op("argument", s, << >>, FALSE) : s \in SlugInputs}
    /\ lastRestore = NoRestoreYet
    /\ lastPush = NoPush
    /\ steps = << >>
    /\ sessions = << >>

\* validate_folder_name(folder)
Validate ==
    /\ pc = "call"
    /\ lastOp' = Op("validate_folder_name", lastOp.folder, << >>,
                    validate_folder_name(lastOp.folder))
    /\ pc' = "done"
    /\ UNCHANGED <<store, file, remote, config, net, is_author, lastRestore,
                   lastPush, steps, sessions>>

SpecValidate == InitValidate /\ [][Validate]_vars

---------------------------------------------------------------------------
(* restore_db on its own: the store is one that the application leaves and *)
(* the snapshot file is any file (written by the application, edited by    *)
(* hand, or fetched from the remote).                                      *)

\* the rows of a collection of a snapshot
MaxSnapRows == 3

SeqsUpTo(S, n) == UNION {[1..k -> S] : k \in 0..n}

abc == <<"a", "b", "c">>

\* an element of a collection that is not a JSON object
NotARow == [kind |-> "other"]

GoodFolder ==
    [kind |-> "dict", folder |-> StrV(abc), name |-> StrV(<<"A", "n", "n">>),
     age |-> IntV(30), profession |-> StrV(Engineer), category |-> StrV(Artists)]

\* a well-formed folder, a slug that validate_folder_name rejects, a row
\* without age, a real age, an element that is not an object
FolderSamples ==
    {GoodFolder,
     [GoodFolder EXCEPT !.folder = StrV(<<"A", "B">>)],
     [GoodFolder EXCEPT !.age = MissingV],
     [GoodFolder EXCEPT !.folder = StrV(sarika), !.age = FloatV(285)],
     NotARow}

GoodImage ==
    [kind |-> "dict", name |-> StrV(Uuid(1)), folder |-> StrV(abc),
     image_data |-> StrV(b64encode(<<255, 216, 255, 224>>)),
     download_allowed |-> IntV(1)]

\* two well-formed images, a row without image_data, a text that is not
\* base64, an element that is not an object, an image of a folder that
\* the snapshot does not list
ImageSamples ==
    {GoodImage,
     [GoodImage EXCEPT !.name = StrV(Uuid(2)),
                       !.image_data = StrV(b64encode(<<255, 216, 7>>)),
                       !.download_allowed = MissingV],
     [GoodImage EXCEPT !.image_data = MissingV],
     [GoodImage EXCEPT !.image_data = StrV(<<"Q", "Q", "=">>)],
     NotARow,
     [GoodImage EXCEPT !.name = StrV(Uuid(3)), !.folder = StrV(<<"x", "y", "z">>)]}

GoodSurvey ==
    [kind |-> "dict", folder |-> StrV(abc), rating |-> IntV(5),
     feedback |-> StrV(Feedback), timestamp |-> StrV(Stamp(1))]

\* a well-formed entry, a rating that is not a number, an entry without
\* feedback, an element that is not an object, a rating off the scale
SurveySamples ==
    {GoodSurvey,
     [GoodSurvey EXCEPT !.rating = StrV(<<"x">>)],
     [GoodSurvey EXCEPT !.feedback = MissingV, !.timestamp = StrV(Stamp(2))],
     NotARow,
     [GoodSurvey EXCEPT !.rating = IntV(9), !.timestamp = StrV(Stamp(3))]}

SnapshotOf(folders, images, surveys) ==
    FileOf(json_dump(Dict(ListOf(folders), ListOf(images), ListOf(surveys))))

\* snapshots of valid shape: one collection varies, the others are fixed
ShapedSnapshots ==
    {SnapshotOf(fs, << >>, << >>) : fs \in SeqsUpTo(FolderSamples, MaxSnapRows)}
    \cup {SnapshotOf(<<GoodFolder>>, is, << >>) :
            is \in SeqsUpTo(ImageSamples, MaxSnapRows)}
    \cup {SnapshotOf(<<GoodFolder>>, <<GoodImage>>, ss) :
            ss \in SeqsUpTo(SurveySamples, MaxSnapRows)}

\* files that are not a snapshot: text that is not JSON, a root that is
\* not an object, a key that is missing, a key that is not a list
\* and no file, an empty file, a file of whitespace
RestoreFiles ==
    LET Collections == {NoList, NotAList, ListOf(<<GoodFolder>>)}
    IN  ShapedSnapshots
        \cup {FileOf(GarbageText), FileOf(json_dump(NotADict))}
        \cup {FileOf(json_dump(Dict(c[1], c[2], c[3]))) :
                c \in {d \in Collections \X Collections \X Collections :
                            \E k \in 1..3 : d[k].t # "list"}}
        \cup {NoFile, FileOf(EmptyText), FileOf(WhitespaceText)}

\* stores that the application leaves: none yet, the default folders, and
\* a gallery with an image and a survey entry
SeededStore == Seeded(NoTables)

BusyStore ==
    [SeededStore EXCEPT
        !.images = InsertImage(<< >>, StrV(Uuid(1)), StrV(sarika),
                               BytesV(Upload1.jpeg), BoolV(TRUE)).rows,
        !.surveys = InsertSurvey(<< >>, StrV(jamuna), IntV(4), StrV(Feedback),
                                 StrV(Stamp(1))).rows]

InitRestore ==
    /\ store \in {NoTables, SeededStore, BusyStore}
    /\ file \in RestoreFiles
    /\ remote = NoRemote
    /\ config = Config(NoneV, NoneV)
    /\ pc = "restore"
    /\ Quiet

\* the state restore_db leaves
Restored(r) ==
    /\ store' = r.store
    /\ lastRestore' = RestoreInfo(r)
    /\ lastOp' = Op("restore_db", << >>, << >>, r.outcome = "complete")
    /\ steps' = <<"restore_db">>
    /\ pc' = "restored"
    /\ UNCHANGED <<file, remote, config, net, is_author, lastPush, sessions>>

\* restore_db(); the DROP and CREATE statements may fail
Restore ==
    /\ pc = "restore"
    /\ \E schema_fault \in BOOLEAN : Restored(restore_db(store, file, schema_fault))

SpecRestore == InitRestore /\ [][Restore]_vars

---------------------------------------------------------------------------
(* commit_backup_api on its own: any environment, file and remote.         *)

InitPush ==
    /\ store = BusyStore
    /\ file \in {NoFile, FileOf(EmptyText), FileOf(WhitespaceText),
                 WriteSnapshot(SeededStore), WriteSnapshot(BusyStore)}
    /\ remote \in {NoRemote, RemoteOf(WriteSnapshot(SeededStore).raw),
                   RemoteOf(GarbageText)}
    /\ \E token \in {NoneV, StrV(<< >>), StrV(<<"a", "b", "c">>), GoodToken,
                     StrV(<<"g", "i", "t", "h", "u", "b", "_", "p", "a", "t",
                            "_", "1">>)},
          url \in {NoneV, StrV(<< >>), GoodRepoUrl,
                   StrV(<<"g", "i", "t", "@", "h", ":", "o", "/", "r">>),
                   StrV(<<"o", "/", "r", ".", "g", "i", "t">>),
                   StrV(<<"n", "o", "u", "r", "l">>)} :
            config = Config(token, url)
    /\ pc = "push"
    /\ Quiet

\* the state commit_backup_api leaves
Answered(r) ==
    /\ remote' = r.remote
    /\ lastPush' = PushInfo(r)
    /\ lastOp' = Op("commit_backup_api", << >>, << >>, r.outcome = "committed")
    /\ steps' = <<"push">>
    /\ pc' = "pushed"
    /\ UNCHANGED <<store, file, config, net, is_author, lastRestore, sessions>>

\* commit_backup_api()
Push ==
    /\ pc = "push"
    /\ \E env \in PushEnvs : Answered(commit_backup_api(config, file, remote, env))

SpecPush == InitPush /\ [][Push]_vars

---------------------------------------------------------------------------
(* Start-up on any machine: the store is one that the application leaves,  *)
(* the snapshot file is any file, and what runs is restore_db alone, or    *)
(* script runs in which the administrator adds folders.                    *)

InitStart ==
    /\ store \in {NoTables, SeededStore, BusyStore}
    /\ file \in RestoreFiles
    /\ remote = NoRemote
    /\ config = Config(GoodToken, GoodRepoUrl)
    /\ net = ScriptEnvs
    /\ is_author = TRUE
    /\ pc \in {"boot", "restore"}
    /\ lastOp = NoOp
    /\ lastRestore = NoRestoreYet
    /\ lastPush = NoPush
    /\ steps = << >>
    /\ sessions = << >>

SpecStart == InitStart /\ [][Boot \/ AddFolder \/ Restore]_vars

---------------------------------------------------------------------------
(* One handler of the script on its own: the administrator is logged in,   *)
(* the store and the file are as init_db left them, and the network and    *)
(* the host may do anything during the push that ends the handler.         *)

\* a gallery whose survey entries share folders and timestamps
CrowdedStore ==
    [BusyStore EXCEPT
        !.surveys = <<@[1],
                      [@[1] EXCEPT !.rating = IntV(5)],
                      [@[1] EXCEPT !.folder = StrV(sarika)],
                      [@[1] EXCEPT !.timestamp = StrV(Stamp(2))]>>]

\* a gallery with three images: two of one folder, and one of another
\* folder that has the name of the first
AlbumStore ==
    [BusyStore EXCEPT
        !.images = <<@[1],
                     [@[1] EXCEPT !.name = StrV(Uuid(2)),
                                  !.download_allowed = IntV(0)],
                     [@[1] EXCEPT !.folder = StrV(jamuna)]>>]

InitSave ==
    /\ store \in {SeededStore, BusyStore, CrowdedStore, AlbumStore}
    /\ file = WriteSnapshot(store)
    /\ remote \in {NoRemote, RemoteOf(WriteSnapshot(SeededStore).raw)}
    /\ config \in {Config(GoodToken, GoodRepoUrl), Config(NoneV, GoodRepoUrl),
                   Config(GoodToken, StrV(<<"n", "o", "u", "r", "l">>))}
    /\ net = PushEnvs
    /\ is_author = TRUE
    /\ pc = "ui"
    /\ lastOp = Op("init_db", << >>, << >>, TRUE)
    /\ lastRestore = NoRestoreYet
    /\ lastPush = NoPush
    /\ steps = << >>
    /\ sessions = << >>

SpecSave ==
    InitSave /\ [][AddFolder \/ Upload \/ Swap \/ SetPermission \/ DeleteImage
                    \/ SubmitSurvey \/ DeleteSurvey]_vars

---------------------------------------------------------------------------
(* Two sessions served side by side.  Streamlit runs the script of each    *)
(* session in a thread of its own, so the steps of the runs interleave:    *)
(* restore_db reads the snapshot file, its transaction rebuilds the        *)
(* tables, init_db ensures the default folders, save_backup writes the     *)
(* file and pushes it, and then the page is built, where the widget that   *)
(* was used is handled.  A session is [at, snapshot, click, zoom_folder,   *)
(* zoom_index, is_author, uses]: the position of its run, the file as its  *)
(* restore_db read it, the widget that started the run, its session_state, *)
(* and the number of widgets its user has used.                            *)

\* the widgets that the user of a session may use in all
MaxUses == 2

Widget(kind, folder, idx, name) ==
    [kind |-> kind, folder |-> folder, idx |-> idx, name |-> name]

\* a run that no widget started
NoClick == Widget("none", << >>, 0, << >>)

\* lines 541-546: the session_state of a new session
Session(author) ==
    [at |-> "read", snapshot |-> NoFile, click |-> NoClick,
     zoom_folder |-> NoneV, zoom_index |-> 0, is_author |-> author,
     uses |-> 0]

\* the buttons and forms of the page that a session shows: in the grid a
\* View button for every image and a survey form for every folder, in the
\* zoom view Previous, Next, Delete Image for the author, and Back
Widgets(st, ses) ==
    IF ses.at = "grid"
    THEN UNION {{Widget("view", f, i, << >>) :
                    i \in 0..(Len(get_images(st, f)) - 1)}
                \cup {Widget("survey", f, 0, << >>) :
                        x \in {y \in {1} : Len(st.surveys) < MaxRows}} :
                f \in Range(load_folders(st))}
    ELSE IF ses.at = "zoom"
    THEN {Widget("back", << >>, 0, << >>)}
         \cup {Widget("previous", << >>, 0, << >>) :
                x \in {y \in {1} : ses.zoom_index > 0}}
         \cup {Widget("next", << >>, 0, << >>) :
                x \in {y \in {1} :
                    ses.zoom_index < Len(get_images(st, ses.zoom_folder.s)) - 1}}
         \cup {Widget("delete", << >>, 0,
                      get_images(st, ses.zoom_folder.s)[k].name.s) :
                k \in {l \in DOMAIN get_images(st, ses.zoom_folder.s) :
                            ses.is_author /\ l = ses.zoom_index + 1}}
    ELSE {}

\* a user uses a widget of the page: the script runs from the top
UseWidget ==
    \E s \in DOMAIN sessions :
        \E w \in Widgets(store, sessions[s]) :
            /\ sessions[s].uses < MaxUses
            /\ sessions' = [sessions EXCEPT ![s].click = w, ![s].at = "read",
                                            ![s].uses = @ + 1]
            /\ UNCHANGED <<store, file, remote, config, net, is_author, pc,
                           lastOp, lastRestore, lastPush, steps>>

\* lines 71-95 of restore_db: the file is read and its shape is checked
ReadSnapshot ==
    \E s \in DOMAIN sessions :
        /\ sessions[s].at = "read"
        /\ sessions' = [sessions EXCEPT ![s].snapshot = file,
                                        ![s].at = "rebuild"]
        /\ UNCHANGED <<store, file, remote, config, net, is_author, pc,
                       lastOp, lastRestore, lastPush, steps>>

\* lines 96-184 of restore_db: the transaction that drops the tables and
\* rebuilds them from the text that was read
RebuildStore ==
    \E s \in DOMAIN sessions :
        /\ sessions[s].at = "rebuild"
        /\ store' = restore_db(store, sessions[s].snapshot, FALSE).store
        /\ sessions' = [sessions EXCEPT ![s].snapshot = NoFile,
                                        ![s].at = "save"]
        /\ UNCHANGED <<file, remote, config, net, is_author, pc, lastOp,
                       lastRestore, lastPush, steps>>

\* lines 302-347 of init_db: the schema, the default folders, and
\* save_backup()
SaveSnapshot ==
    \E s \in DOMAIN sessions, env \in net :
        /\ sessions[s].at = "save"
        /\ \E w \in {save_backup(Seeded(store), file, remote, config, env, << >>)} :
            /\ store' = w.store
            /\ file' = w.file
            /\ remote' = w.remote
        /\ sessions' = [sessions EXCEPT ![s].at = "page"]
        /\ UNCHANGED <<config, net, is_author, pc, lastOp, lastRestore,
                       lastPush, steps>>

\* lines 658-688: the grid view, with the View button or the survey form
\* that was used
GridView ==
    \E s \in DOMAIN sessions, env \in net :
        /\ sessions[s].at = "page"
        /\ sessions[s].zoom_folder = NoneV
        /\ \E c \in {sessions[s].click} :
            IF /\ c.kind = "view"
               /\ c.folder \in Range(load_folders(store))
               /\ c.idx < Len(get_images(store, c.folder))
            THEN /\ sessions' = [sessions EXCEPT
                                    ![s].zoom_folder = StrV(c.folder),
                                    ![s].zoom_index = c.idx,
                                    ![s].click = NoClick,
                                    ![s].at = "read"]
                 /\ UNCHANGED <<store, file, remote, lastOp>>
            ELSE IF c.kind = "survey" /\ c.folder \in Range(load_folders(store))
            THEN \E r \in {save_survey_data(store, file, remote, config, env,
                                            c.folder, 5, Feedback, now(store))} :
                    /\ store' = r.w.store
                    /\ file' = r.w.file
                    /\ remote' = r.w.remote
                    /\ lastOp' = Op("save_survey_data", c.folder, now(store), r.ret)
                    /\ sessions' = [sessions EXCEPT ![s].click = NoClick,
                                                    ![s].at = "read"]
            ELSE /\ sessions' = [sessions EXCEPT ![s].click = NoClick,
                                                 ![s].at = "grid"]
                 /\ UNCHANGED <<store, file, remote, lastOp>>
        /\ UNCHANGED <<config, net, is_author, pc, lastRestore, lastPush, steps>>

\* what the zoom view does with the images it got and the index idx it
\* shows: the button that was used, or the page is shown
ZoomShown(s, env, images, idx) ==
    \E c \in {sessions[s].click} :
        IF c.kind = "previous" /\ idx > 0
        THEN /\ sessions' = [sessions EXCEPT ![s].zoom_index = idx - 1,
                                             ![s].click = NoClick,
                                             ![s].at = "read"]
             /\ UNCHANGED <<store, file, remote, lastOp>>
        ELSE IF c.kind = "next" /\ idx < Len(images) - 1
        THEN /\ sessions' = [sessions EXCEPT ![s].zoom_index = idx + 1,
                                             ![s].click = NoClick,
                                             ![s].at = "read"]
             /\ UNCHANGED <<store, file, remote, lastOp>>
        ELSE IF /\ c.kind = "delete"
                /\ sessions[s].is_author
                /\ images[idx + 1].name.s = c.name
        THEN \E r \in {delete_image(store, file, remote, config, env,
                                    sessions[s].zoom_folder.s, c.name)} :
                /\ store' = r.w.store
                /\ file' = r.w.file
                /\ remote' = r.w.remote
                /\ lastOp' = Op("delete_image", sessions[s].zoom_folder.s,
                                c.name, r.ret)
                /\ sessions' =
                    [sessions EXCEPT
                        ![s].zoom_folder =
                            IF get_images(r.w.store, sessions[s].zoom_folder.s)
                                    = << >>
                            THEN NoneV ELSE @,
                        ![s].zoom_index =
                            IF get_images(r.w.store, sessions[s].zoom_folder.s)
                                    = << >> \/ idx = 0
                            THEN 0 ELSE idx - 1,
                        ![s].click = NoClick,
                        ![s].at = "read"]
        ELSE IF c.kind = "back"
        THEN /\ sessions' = [sessions EXCEPT ![s].zoom_folder = NoneV,
                                             ![s].zoom_index = 0,
                                             ![s].click = NoClick,
                                             ![s].at = "read"]
             /\ UNCHANGED <<store, file, remote, lastOp>>
        ELSE /\ sessions' = [sessions EXCEPT ![s].zoom_index = idx,
                                             ![s].click = NoClick,
                                             ![s].at = "zoom"]
             /\ UNCHANGED <<store, file, remote, lastOp>>

\* lines 713-747: the zoom view; images[idx] raises IndexError for a
\* folder without images, and the run ends there
ZoomView ==
    \E s \in DOMAIN sessions, env \in net :
        /\ sessions[s].at = "page"
        /\ sessions[s].zoom_folder # NoneV
        /\ \E images \in {get_images(store, sessions[s].zoom_folder.s)} :
            IF images = << >>
            THEN /\ sessions' = [sessions EXCEPT ![s].zoom_index = 0,
                                                 ![s].click = NoClick,
                                                 ![s].at = "failed"]
                 /\ UNCHANGED <<store, file, remote, lastOp>>
            ELSE ZoomShown(s, env, images,
                           IF sessions[s].zoom_index >= Len(images)
                           THEN 0 ELSE sessions[s].zoom_index)
        /\ UNCHANGED <<config, net, is_author, pc, lastRestore, lastPush, steps>>

\* a gallery with two images in the folder "sarika"
PairStore ==
    [SeededStore EXCEPT
        !.images = <<BusyStore.images[1],
                     [BusyStore.images[1] EXCEPT !.name = StrV(Uuid(2))]>>]

\* a visitor opens the gallery while the author views the first image of
\* "sarika"
InitSessions ==
    /\ store = PairStore
    /\ file = WriteSnapshot(PairStore)
    /\ remote = RemoteOf(WriteSnapshot(PairStore).raw)
    /\ config = Config(GoodToken, GoodRepoUrl)
    /\ net = ScriptEnvs
    /\ is_author = FALSE
    /\ pc = "sessions"
    /\ lastOp = NoOp
    /\ lastRestore = NoRestoreYet
    /\ lastPush = NoPush
    /\ sessions = <<Session(FALSE),
                    [Session(TRUE) EXCEPT !.zoom_folder = StrV(sarika)]>>
    /\ steps = <<"sessions">>

SpecSessions ==
    InitSessions /\ [][UseWidget \/ ReadSnapshot \/ RebuildStore
                        \/ SaveSnapshot \/ GridView \/ ZoomView]_vars

---------------------------------------------------------------------------
(* Properties of restore_db (SpecRestore).                                 *)

\* the snapshot file holds JSON whose root is an object with the three
\* keys, each a list
ValidShape(f) ==
    /\ f.exists
    /\ f.raw.k = "json"
    /\ f.raw.v.t = "dict"
    /\ \A c \in {f.raw.v.folders, f.raw.v.images, f.raw.v.surveys} : c.t = "list"

\* the snapshot file holds text that is not blank and is not a snapshot
FormatError(f) == f.exists /\ f.raw.k \notin {"empty", "ws"} /\ ~ValidShape(f)

\* the snapshot file is absent or blank
Blank(f) == ~f.exists \/ f.raw.k \in {"empty", "ws"}

\* C1: after a restore of a snapshot of valid shape (the schema statements
\* succeeding), for each collection the rows stored plus the rows reported
\* as skipped are the rows of the snapshot, and the restore is reported
\* complete.
C1_StoredPlusSkipped ==
    (pc = "restored" /\ ValidShape(file) /\ ~lastRestore.schema_failure) =>
        /\ lastRestore.reported
        /\ Len(store.folders) + lastRestore.skipped.folders
                = Len(file.raw.v.folders.rows)
        /\ Len(store.images) + lastRestore.skipped.images
                = Len(file.raw.v.images.rows)
        /\ Len(store.surveys) + lastRestore.skipped.surveys
                = Len(file.raw.v.surveys.rows)

\* C3: a restore_db that finds a file that is not valid JSON, or whose root
\* is not an object, or that lacks one of the three keys or has one that
\* is not a list, ends with that error and leaves the store as it was.
C3_FormatErrorLeavesStore ==
    [][(pc = "restore" /\ pc' = "restored" /\ FormatError(file)) =>
            /\ store' = store
            /\ lastRestore'.outcome
                    \in {"bad_json", "not_dict", "missing_key", "not_list"}
            /\ ~lastRestore'.reported]_vars

\* a format error was met by a store that holds rows
C3_Witness ==
    /\ pc = "restored"
    /\ lastRestore.outcome \in {"not_dict", "not_list"}
    /\ store.images # << >>

\* C4: a restore_db rolls back only when the schema statements fail.
C4_RollbackOnlySchema ==
    lastRestore.outcome = "rolled_back" => lastRestore.schema_failure

\* C5: a restore_db that finds no file, or a file that is empty or holds
\* only whitespace, returns before the transaction and leaves the store as
\* it was.
C5_BlankIsNoOp ==
    [][(pc = "restore" /\ pc' = "restored" /\ Blank(file)) =>
            /\ store' = store
            /\ lastRestore'.outcome \in {"absent", "empty"}
            /\ ~lastRestore'.reported
            /\ ~lastRestore'.schema_failure]_vars

\* a whitespace file was met by a store that holds rows
C5_Witness ==
    /\ pc = "restored"
    /\ file = FileOf(WhitespaceText)
    /\ lastRestore.outcome = "empty"
    /\ store.images # << >>

\* C8: every slug in the folders table has passed validate_folder_name.
C8_StoredSlugsValidated ==
    (pc = "restored" /\ lastRestore.outcome = "complete") =>
        \A k \in DOMAIN store.folders :
            validate_folder_name(store.folders[k].folder.s)

---------------------------------------------------------------------------
(* Properties of validate_folder_name (SpecValidate).                      *)

\* 3 to 20 characters, each a lowercase letter, a digit or an underscore
SlugRule(s) ==
    /\ Len(s) >= MinSlugLen
    /\ Len(s) <= MaxSlugLen
    /\ \A k \in DOMAIN s : s[k] \in SlugChars

\* C7: validate_folder_name returns true exactly for the texts of 3 to 20
\* characters that are lowercase letters, digits or underscores.
C7_ValidatorIsSlugRule ==
    lastOp.op = "validate_folder_name" => (lastOp.ret <=> SlugRule(lastOp.folder))

---------------------------------------------------------------------------
(* Properties of commit_backup_api (SpecPush).                             *)

NoCredential(cfg) == Falsy(cfg.GITHUB_TOKEN)

UnknownPrefix(cfg) ==
    \A pre \in TokenPrefixes : ~StartsWith(cfg.GITHUB_TOKEN.s, pre)

NoLocation(cfg) == Falsy(cfg.REPO_URL)

NoOwnerRepo(cfg) == NoRepoIn(parse_github_repo_info(cfg.REPO_URL))

PreconditionFails(cfg, f) ==
    \/ NoCredential(cfg)
    \/ UnknownPrefix(cfg)
    \/ NoLocation(cfg)
    \/ NoOwnerRepo(cfg)
    \/ ~f.exists
    \/ f.raw.k \in {"empty", "ws"}

\* the precondition that a failure names does fail
FailureNames(outcome, cfg, f) ==
    CASE outcome = "no_token" -> NoCredential(cfg)
      [] outcome = "bad_token" -> UnknownPrefix(cfg)
      [] outcome = "no_repo_url" -> NoLocation(cfg)
      [] outcome = "bad_repo_url" -> NoOwnerRepo(cfg)
      [] outcome = "no_file" -> ~f.exists
      [] outcome = "empty_file" -> f.exists /\ f.raw.k \in {"empty", "ws"}
      [] OTHER -> FALSE

\* C10: a commit_backup_api called while a precondition fails returns a
\* failure that names a failing precondition, sends no request and leaves
\* the remote as it was.
C10_PreconditionsBeforeNetwork ==
    [][(pc = "push" /\ pc' = "pushed" /\ PreconditionFails(config, file)) =>
            /\ lastPush'.requests = << >>
            /\ remote' = remote
            /\ FailureNames(lastPush'.outcome, config, file)]_vars

\* the last precondition failed with a credential and a location that pass
C10_Witness ==
    /\ pc = "pushed"
    /\ config = Config(GoodToken, GoodRepoUrl)
    /\ lastPush.outcome = "empty_file"
    /\ lastPush.requests = << >>

\* C11: when another writer changes or creates the remote file between
\* the GET of the contents and the PUT, the host rejects the PUT, the call
\* reports that the commit failed, the remote holds what the other writer
\* put there, and the call has sent exactly one PUT.
C11_StalePointerIsConflict ==
    [][(pc = "push" /\ pc' = "pushed" /\ lastPush'.raced) =>
            /\ lastPush'.outcome = "put_failed"
            /\ remote' = RemoteOf(GarbageText)
            /\ remote' # RemoteOf(file.raw)
            /\ Cardinality({k \in DOMAIN lastPush'.requests :
                                lastPush'.requests[k].method = "PUT"}) = 1
            /\ lastPush'.requests[3].status \notin {200, 201}]_vars

\* a PUT with the pointer of a file that another writer replaced: 409
C11_Witness ==
    /\ pc = "pushed"
    /\ lastPush.raced
    /\ lastPush.outcome = "put_failed"
    /\ lastPush.requests[3].with_sha
    /\ lastPush.requests[3].status = 409
    /\ remote = RemoteOf(GarbageText)

\* C12: when the GET of the contents answers 200 or 404 a PUT follows, and
\* its payload has the pointer exactly when the answer was 200; for any
\* other status no PUT is sent and the call reports the failure.
C12_PointerIffFound ==
    [][(/\ pc = "push" /\ pc' = "pushed"
        /\ Len(lastPush'.requests) >= 2
        /\ lastPush'.requests[2].status # 0) =>
            /\ lastPush'.requests[2].status \in {200, 404} =>
                    /\ Len(lastPush'.requests) = 3
                    /\ lastPush'.requests[3].method = "PUT"
                    /\ lastPush'.requests[3].with_sha
                            <=> lastPush'.requests[2].status = 200
            /\ lastPush'.requests[2].status \notin {200, 404} =>
                    /\ Len(lastPush'.requests) = 2
                    /\ lastPush'.outcome = "fetch_failed"
                    /\ remote' = remote]_vars

\* the first push of a snapshot: 404, then a PUT without pointer creates
\* the file
C12_Witness ==
    /\ pc = "pushed"
    /\ Len(lastPush.requests) = 3
    /\ lastPush.requests[2].status = 404
    /\ ~lastPush.requests[3].with_sha
    /\ lastPush.outcome = "committed"
    /\ remote = RemoteOf(file.raw)

\* C13: when the identity probe answers a status other than 200, the call
\* reports an authentication failure, one for 401, one for 403 and one
\* for every other status, and sends no further request.
C13_AuthenticationGate ==
    [][(/\ pc = "push" /\ pc' = "pushed"
        /\ Len(lastPush'.requests) >= 1
        /\ lastPush'.requests[1].status \notin {0, 200}) =>
            /\ Len(lastPush'.requests) = 1
            /\ remote' = remote
            /\ lastPush'.outcome =
                    (IF lastPush'.requests[1].status = 401 THEN "auth_401"
                     ELSE IF lastPush'.requests[1].status = 403 THEN "auth_403"
                     ELSE "auth_other")]_vars

\* a probe that answered 403
C13_Witness ==
    /\ pc = "pushed"
    /\ lastPush.requests = <<Request("GET", "user", FALSE, 403)>>
    /\ lastPush.outcome = "auth_403"

---------------------------------------------------------------------------
(* Properties of the script runs (Spec).                                   *)

SlugRows(st, slug) == {k \in DOMAIN st.folders : st.folders[k].folder = StrV(slug)}

\* C6: add_folder with a valid slug returns True exactly when no folder has
\* the slug; then the table gets one row with the attributes given; when
\* it returns False the table is as it was; either way one row has the
\* slug afterwards.
C6_DuplicateFolder ==
    [][(pc = "ui" /\ lastOp'.op = "add_folder"
            /\ validate_folder_name(lastOp'.folder)) =>
            /\ lastOp'.ret <=> SlugRows(store, lastOp'.folder) = {}
            /\ Cardinality(SlugRows(store', lastOp'.folder)) = 1
            /\ ~lastOp'.ret => store'.folders = store.folders
            /\ lastOp'.ret =>
                    /\ Len(store'.folders) = Len(store.folders) + 1
                    /\ SubSeq(store'.folders, 1, Len(store.folders)) = store.folders
                    /\ store'.folders[Len(store'.folders)].name
                            = StrV(lastOp'.name)]_vars

\* a second add_folder of a slug that add_folder added, with another name
C6_Witness ==
    /\ lastOp.op = "add_folder"
    /\ ~lastOp.ret
    /\ lastOp.folder = abc
    /\ \E k \in DOMAIN store.folders :
            /\ store.folders[k].folder = StrV(abc)
            /\ store.folders[k].name # StrV(lastOp.name)

MutatingOps ==
    {"add_folder", "load_images_to_db", "swap_image",
     "update_download_permission", "delete_image", "save_survey_data",
     "delete_survey_entry"}

\* C9: when a mutating function has returned normally, it ran commit,
\* serialize_db, the write of the file and one push, in this order, and the
\* file holds the serialization of the store.
C9_SavedAfterMutation ==
    (lastOp.op \in MutatingOps /\ lastOp.ret) =>
        /\ steps = <<"commit", "serialize_db", "write", "push">>
        /\ lastPush.outcome # "not_called"
        /\ file = FileOf(json_dump(serialize_db(store)))

\* a swap changed a blob and the file holds the new one
C9_Witness ==
    /\ lastOp.op = "swap_image"
    /\ lastOp.ret
    /\ \E k \in DOMAIN store.images : store.images[k].image_data.b = Swapped.jpeg
    /\ file = FileOf(json_dump(serialize_db(store)))

---------------------------------------------------------------------------
(* Properties of one handler under any network (SpecSave).                 *)

\* the rows that the call op(folder, name) commits are in the store after
OpCommitted(op, folder, name, before, after) ==
    CASE op = "add_folder" ->
            /\ Len(after.folders) = Len(before.folders) + 1
            /\ after.folders[Len(after.folders)].folder = StrV(folder)
            /\ after.folders[Len(after.folders)].name = StrV(name)
      [] op = "load_images_to_db" ->
            /\ Len(after.images) = Len(before.images) + 1
            /\ after.images[Len(after.images)].folder = StrV(folder)
            /\ after.images[Len(after.images)].name = StrV(name)
      [] op = "swap_image" ->
            \E k \in DOMAIN after.images :
                /\ after.images[k].name = StrV(name)
                /\ after.images[k].image_data = BytesV(Swapped.jpeg)
                /\ before.images[k].image_data # BytesV(Swapped.jpeg)
      [] op = "update_download_permission" ->
            \E k \in DOMAIN after.images :
                /\ after.images[k].name = StrV(name)
                /\ after.images[k].download_allowed
                        # before.images[k].download_allowed
      [] op = "delete_image" ->
            /\ Len(after.images) < Len(before.images)
            /\ \A k \in DOMAIN after.images :
                    ~(after.images[k].folder = StrV(folder)
                        /\ after.images[k].name = StrV(name))
      [] op = "save_survey_data" ->
            /\ Len(after.surveys) = Len(before.surveys) + 1
            /\ after.surveys[Len(after.surveys)].folder = StrV(folder)
            /\ after.surveys[Len(after.surveys)].timestamp = StrV(name)
      [] op = "delete_survey_entry" ->
            /\ Len(after.surveys) < Len(before.surveys)
            /\ \A k \in DOMAIN after.surveys :
                    ~(after.surveys[k].folder = StrV(folder)
                        /\ after.surveys[k].timestamp = StrV(name))

\* C14: when the push of a mutating function does not commit the file
\* (a precondition fails, the probe or the GET is refused, the PUT is
\* rejected, a request raises), the function still returns normally, the
\* rows it committed are in the store, and the local file holds the
\* snapshot of that store.
C14_LocalDataKeptOnPushFailure ==
    [][(/\ pc = "ui"
        /\ lastOp'.op \in MutatingOps
        /\ lastPush'.outcome \notin {"committed", "not_called"}) =>
            /\ lastOp'.ret
            /\ OpCommitted(lastOp'.op, lastOp'.folder, lastOp'.name, store, store')
            /\ file' = FileOf(json_dump(serialize_db(store')))
            /\ file' # file
            /\ steps' = <<"commit", "serialize_db", "write", "push">>]_vars

\* a folder was added and the PUT of the snapshot was rejected
C14_Witness ==
    /\ lastOp.op = "add_folder"
    /\ lastOp.ret
    /\ lastPush.outcome = "put_failed"
    /\ \E k \in DOMAIN store.folders : store.folders[k].folder = StrV(abc)
    /\ file = FileOf(json_dump(serialize_db(store)))
    /\ remote # RemoteOf(file.raw)

\* the number of entries of a sequence that are equal to e
Count(rows, e) == Cardinality({k \in DOMAIN rows : rows[k] = e})

\* C17: delete_survey_entry(folder, timestamp) leaves no entry with that
\* folder and that timestamp, keeps every other entry as often as it was
\* there, and leaves the folders and the images as they were.
C17_DeleteSurveyEntry ==
    [][(pc = "ui" /\ lastOp'.op = "delete_survey_entry") =>
            /\ \A e \in Range(store.surveys) \cup Range(store'.surveys) :
                    Count(store'.surveys, e) =
                        (IF e.folder = StrV(lastOp'.folder)
                            /\ e.timestamp = StrV(lastOp'.name)
                         THEN 0 ELSE Count(store.surveys, e))
            /\ store'.folders = store.folders
            /\ store'.images = store.images]_vars

\* two entries of one folder with one timestamp were deleted together, and
\* the entry of another folder with that timestamp and the entry of that
\* folder with another timestamp are still there
C17_Witness ==
    /\ lastOp.op = "delete_survey_entry"
    /\ lastOp.folder = jamuna
    /\ lastOp.name = Stamp(1)
    /\ Len(store.surveys) = 2
    /\ store.surveys[1].folder = StrV(sarika)
    /\ store.surveys[1].timestamp = StrV(Stamp(1))
    /\ store.surveys[2].folder = StrV(jamuna)
    /\ store.surveys[2].timestamp = StrV(Stamp(2))

---------------------------------------------------------------------------
(* Properties of the start-up (SpecStart).                                 *)

\* C15: in every state that init_db, restore_db and add_folder reach, no
\* two rows of the folders table have the same slug.
C15_SlugsUnique ==
    \A i, j \in DOMAIN store.folders :
        store.folders[i].folder = store.folders[j].folder => i = j

\* restore_db read a snapshot that lists one slug twice and stored it once
C15_Witness ==
    /\ pc = "restored"
    /\ file = SnapshotOf(<<GoodFolder, GoodFolder>>, << >>, << >>)
    /\ lastRestore.outcome = "complete"
    /\ lastRestore.skipped.folders = 1
    /\ Len(store.folders) = 1
    /\ store.folders[1].folder = GoodFolder.folder

\* the number of folder rows with a slug
SlugCount(st, slug) ==
    Cardinality({k \in DOMAIN st.folders : st.folders[k].folder = StrV(slug)})

\* C20: init_db runs restore_db, then the schema and the default folders,
\* then save_backup; whatever the snapshot file held, the three tables exist
\* after it, the folders table has exactly one row for "sarika" and exactly
\* one for "jamuna", and the file holds the snapshot of the store.
C20_StartupOrder ==
    [][pc = "boot" =>
            /\ lastOp'.op = "init_db"
            /\ steps' = <<"restore_db", "commit", "serialize_db", "write", "push">>
            /\ store'.tables
            /\ SlugCount(store', sarika) = 1
            /\ SlugCount(store', jamuna) = 1
            /\ file' = FileOf(json_dump(serialize_db(store')))]_vars

\* a snapshot without the default folders was restored and the two
\* default folders were added after its rows
C20_Witness ==
    /\ pc = "ui"
    /\ lastOp.op = "init_db"
    /\ lastRestore.outcome = "complete"
    /\ Len(store.folders) = 3
    /\ store.folders[1].folder = StrV(abc)
    /\ store.folders[2].folder = StrV(sarika)
    /\ store.folders[3].folder = StrV(jamuna)

\* C19: the folder of every row of the images table is the slug of a row
\* of the folders table, in every state that the start-up and the
\* handlers reach.
C19_ImagesReferenceFolders ==
    \A k \in DOMAIN store.images :
        \E j \in DOMAIN store.folders :
            store.folders[j].folder = store.images[k].folder

---------------------------------------------------------------------------
(* Further properties of restore_db (SpecRestore).                         *)

\* C18: the rating of every row of the surveys table is an integer from 1
\* to 5, in every state that the survey form and restore_db reach.
C18_RatingsOnScale ==
    \A k \in DOMAIN store.surveys :
        /\ store.surveys[k].rating.t = "int"
        /\ store.surveys[k].rating.i \in 1..5

---------------------------------------------------------------------------
(* Further properties of the script runs (Spec).                           *)

\* C16: a row of the folders table stays in the table, with the same
\* slug, name, age, profession and category, through every later script
\* run and handler.
C16_FoldersKept ==
    [][\A k \in DOMAIN store.folders :
            \E j \in DOMAIN store'.folders :
                store'.folders[j] = store.folders[k]]_vars

\* a folder the administrator added is there after the restore of the
\* next script run
C16_Witness ==
    /\ pc = "ui"
    /\ lastOp.op = "init_db"
    /\ lastRestore.outcome = "complete"
    /\ \E k \in DOMAIN store.folders :
            /\ store.folders[k].folder = StrV(abc)
            /\ store.folders[k].name = StrV(<<"B", "o", "b">>)

AuthorOps ==
    {"add_folder", "load_images_to_db", "swap_image",
     "update_download_permission", "delete_image", "delete_survey_entry"}

\* C22: the management of the content is for the administrator: add_folder,
\* load_images_to_db, swap_image, update_download_permission, delete_image
\* and delete_survey_entry are called only in a session whose is_author is
\* true; is_author becomes true only by the login form with the password
\* ADMIN_PASSWORD and is false after the logout button; what a visitor's
\* interaction changes in the store is one survey entry added.
C22_AuthorGated ==
    [][/\ (pc = "ui" /\ lastOp'.op \in AuthorOps) => is_author
       /\ (~is_author /\ is_author') => (lastOp'.op = "login" /\ lastOp'.ret)
       /\ (pc = "ui" /\ lastOp'.op = "login" /\ ~lastOp'.ret) =>
              is_author' = is_author
       /\ (pc = "ui" /\ lastOp'.op = "logout") => ~is_author'
       /\ (is_author /\ ~is_author') => lastOp'.op = "logout"
       /\ (pc = "ui" /\ ~is_author /\ ~is_author') =>
              /\ lastOp'.op \in {"login", "save_survey_data"}
              /\ store'.folders = store.folders
              /\ store'.images = store.images
              /\ \/ store'.surveys = store.surveys
                 \/ /\ lastOp'.op = "save_survey_data"
                    /\ Len(store'.surveys) = Len(store.surveys) + 1
                    /\ SubSeq(store'.surveys, 1, Len(store.surveys)) =
                          store.surveys]_vars

C22_Witness ==
    /\ is_author
    /\ pc = "boot"
    /\ lastOp.op = "delete_survey_entry"
    /\ store.surveys = << >>
    /\ Len(store.folders) = 3

---------------------------------------------------------------------------
(* Further properties of restore_db on its own (SpecRestore).              *)

\* C23: after a restore that completes, the age of every row of the
\* folders table and the rating of every row of the surveys table is the
\* integer that the row of the snapshot gives: a row whose age or rating
\* is not an integer is not in the tables.
C23_IntegersAsGiven ==
    (pc = "restored" /\ lastRestore.outcome = "complete") =>
        /\ \A k \in DOMAIN store.folders :
            \E j \in DOMAIN json_loads(file.raw).folders.rows :
                /\ json_loads(file.raw).folders.rows[j].kind = "dict"
                /\ json_loads(file.raw).folders.rows[j].folder =
                        store.folders[k].folder
                /\ json_loads(file.raw).folders.rows[j].age.t = "int"
                /\ json_loads(file.raw).folders.rows[j].age =
                        store.folders[k].age
        /\ \A k \in DOMAIN store.surveys :
            \E j \in DOMAIN json_loads(file.raw).surveys.rows :
                /\ json_loads(file.raw).surveys.rows[j].kind = "dict"
                /\ json_loads(file.raw).surveys.rows[j].timestamp =
                        store.surveys[k].timestamp
                /\ json_loads(file.raw).surveys.rows[j].rating.t = "int"
                /\ json_loads(file.raw).surveys.rows[j].rating =
                        store.surveys[k].rating

---------------------------------------------------------------------------
(* Further properties of commit_backup_api on its own (SpecPush).          *)

\* C24: one call of commit_backup_api sends at most one GET of the user,
\* one GET of the contents and one PUT, in that order: the GET of the
\* contents only after the probe answered 200, the PUT only after the GET
\* of the contents answered 200 or 404; the call reports the commit exactly
\* when the PUT answered 200 or 201, and a failure for any other answer.
C24_OneProbeOneFetchOneWrite ==
    pc = "pushed" =>
        /\ Len(lastPush.requests) <= 3
        /\ \A k \in DOMAIN lastPush.requests :
            /\ lastPush.requests[k].method = (IF k = 3 THEN "PUT" ELSE "GET")
            /\ lastPush.requests[k].target = (IF k = 1 THEN "user" ELSE "contents")
        /\ Len(lastPush.requests) >= 2 => lastPush.requests[1].status = 200
        /\ Len(lastPush.requests) = 3 => lastPush.requests[2].status \in {200, 404}
        /\ lastPush.outcome = "committed" <=>
                /\ Len(lastPush.requests) = 3
                /\ lastPush.requests[3].status \in {200, 201}
        /\ lastOp.ret <=> lastPush.outcome = "committed"
        /\ (Len(lastPush.requests) = 3
                /\ lastPush.requests[3].status \notin {200, 201}) =>
                lastPush.outcome \in {"put_failed", "exception"}

\* a PUT that the host refused with 403 after a probe and a fetch that
\* answered 200
C24_Witness ==
    /\ pc = "pushed"
    /\ Len(lastPush.requests) = 3
    /\ lastPush.requests[1].status = 200
    /\ lastPush.requests[2].status = 200
    /\ lastPush.requests[3].status = 403
    /\ lastPush.outcome = "put_failed"
    /\ ~lastPush.raced

\* C25: restore_db leaves either the store it found, when the file is
\* absent, empty or not a snapshot and when the transaction is rolled
\* back, or tables that are all rebuilt and hold only rows of the
\* snapshot, in the order of the snapshot: the tables are never left
\* dropped, and no table keeps rows of the store from before.
C25_RestoreAtomic ==
    [][(pc = "restore" /\ pc' = "restored") =>
        \/ /\ lastRestore'.outcome # "complete"
           /\ store' = store
        \/ /\ lastRestore'.outcome = "complete"
           /\ store'.tables
           /\ \E pick \in [DOMAIN store'.folders ->
                            DOMAIN json_loads(file.raw).folders.rows] :
                \A k \in DOMAIN store'.folders :
                    /\ \A l \in DOMAIN store'.folders :
                            k < l => pick[k] < pick[l]
                    /\ json_loads(file.raw).folders.rows[pick[k]].kind = "dict"
                    /\ json_loads(file.raw).folders.rows[pick[k]].folder =
                            store'.folders[k].folder
                    /\ json_loads(file.raw).folders.rows[pick[k]].name =
                            store'.folders[k].name
           /\ \E pick \in [DOMAIN store'.images ->
                            DOMAIN json_loads(file.raw).images.rows] :
                \A k \in DOMAIN store'.images :
                    /\ \A l \in DOMAIN store'.images :
                            k < l => pick[k] < pick[l]
                    /\ json_loads(file.raw).images.rows[pick[k]].kind = "dict"
                    /\ json_loads(file.raw).images.rows[pick[k]].name =
                            store'.images[k].name
                    /\ json_loads(file.raw).images.rows[pick[k]].folder =
                            store'.images[k].folder
                    /\ json_loads(file.raw).images.rows[pick[k]].image_data =
                            StrV(b64encode(store'.images[k].image_data.b))
           /\ \E pick \in [DOMAIN store'.surveys ->
                            DOMAIN json_loads(file.raw).surveys.rows] :
                \A k \in DOMAIN store'.surveys :
                    /\ \A l \in DOMAIN store'.surveys :
                            k < l => pick[k] < pick[l]
                    /\ json_loads(file.raw).surveys.rows[pick[k]].kind = "dict"
                    /\ json_loads(file.raw).surveys.rows[pick[k]].folder =
                            store'.surveys[k].folder
                    /\ json_loads(file.raw).surveys.rows[pick[k]].timestamp =
                            store'.surveys[k].timestamp]_vars

\* a transaction that an element of "images" that is no object made fail
\* after the folders of the snapshot were inserted: the gallery with its
\* image and its survey entry is as before
C25_Witness ==
    /\ pc = "restored"
    /\ lastRestore.outcome = "rolled_back"
    /\ ~lastRestore.schema_failure
    /\ store = BusyStore
    /\ file.raw.k = "json"
    /\ Len(json_loads(file.raw).folders.rows) = 1

---------------------------------------------------------------------------
(* Further properties of the start of a script run (SpecStart).            *)

\* C27: init_db writes the snapshot file from the store it ends with: the
\* file it leaves is the serialization of the store; after a restore that
\* completed, the file lists as many images and survey entries as the file
\* it found, less the rows that restore_db skipped, and every row it lists
\* is an object with all the fields; a file that was empty, not JSON or not
\* of the shape of a snapshot is replaced by the serialization of the store
\* from before with the default folders ensured.
C27_SnapshotRewritten ==
    [][(pc = "boot" /\ pc' = "ui") =>
        /\ file'.exists
        /\ file'.raw.k = "json"
        /\ json_loads(file'.raw) = serialize_db(store')
        /\ lastRestore'.outcome = "complete" =>
            /\ Len(json_loads(file'.raw).images.rows) =
                    Len(json_loads(file.raw).images.rows)
                        - lastRestore'.skipped.images
            /\ Len(json_loads(file'.raw).surveys.rows) =
                    Len(json_loads(file.raw).surveys.rows)
                        - lastRestore'.skipped.surveys
            /\ \A k \in DOMAIN json_loads(file'.raw).images.rows :
                /\ json_loads(file'.raw).images.rows[k].kind = "dict"
                /\ json_loads(file'.raw).images.rows[k].image_data.t = "str"
            /\ \A k \in DOMAIN json_loads(file'.raw).folders.rows :
                /\ json_loads(file'.raw).folders.rows[k].kind = "dict"
                /\ json_loads(file'.raw).folders.rows[k].age.t = "int"
        /\ lastRestore'.outcome \in {"empty", "bad_json", "not_dict",
                                     "missing_key", "not_list"} =>
            /\ store' = Seeded(store)
            /\ json_loads(file'.raw) = serialize_db(Seeded(store))
            /\ file' # file]_vars

\* a snapshot with one image that restore_db stored and two elements of
\* "images" that it skipped: the file that init_db leaves lists one image
C27_Witness ==
    /\ pc = "ui"
    /\ lastOp.op = "init_db"
    /\ lastRestore.outcome = "complete"
    /\ lastRestore.skipped.images = 2
    /\ Len(store.images) = 1
    /\ Len(json_loads(file.raw).images.rows) = 1

---------------------------------------------------------------------------
(* Further properties of the handlers on any network (SpecSave).           *)

\* C28: when the push of a mutating function reports the commit, the file
\* at the remote host holds the text of the local snapshot file, and that
\* text is the serialization of the store that the function left.
C28_RemoteIsSnapshot ==
    [][(pc = "ui" /\ lastPush'.outcome = "committed") =>
            /\ remote'.exists
            /\ remote'.content = file'.raw
            /\ file'.exists
            /\ file'.raw = json_dump(serialize_db(store'))
            /\ json_loads(remote'.content) = serialize_db(store')
            /\ lastPush'.requests[3].status \in {200, 201}]_vars

\* an image was deleted and the PUT of the snapshot without it answered
\* 200: the remote file lists no image
C28_Witness ==
    /\ lastOp.op = "delete_image"
    /\ lastOp.ret
    /\ lastPush.outcome = "committed"
    /\ lastPush.requests[3].status = 200
    /\ store.images = << >>
    /\ remote.exists
    /\ remote.content = file.raw
    /\ json_loads(remote.content).images.rows = << >>

\* the rows of the images table that an image operation addresses
Addressed(rows, folder, name) ==
    {k \in DOMAIN rows : rows[k].folder = StrV(folder) /\ rows[k].name = StrV(name)}

\* C29: swap_image, update_download_permission and delete_image touch the
\* rows of the images table with the folder and the name given, and
\* nothing else: swap_image changes their image_data only,
\* update_download_permission their download_allowed only, delete_image
\* removes exactly them; the other images, in their order, the folders
\* and the survey entries are as before; with a folder and a name that no
\* row has, and when swap_image fails, the store is as before.
C29_ImageFrame ==
    [][/\ (/\ pc = "ui"
           /\ lastOp'.op \in {"swap_image", "update_download_permission",
                              "delete_image"}) =>
            /\ store'.tables = store.tables
            /\ store'.folders = store.folders
            /\ store'.surveys = store.surveys
            /\ ~lastOp'.ret => store'.images = store.images
            /\ (lastOp'.ret /\ lastOp'.op # "delete_image") =>
                /\ Len(store'.images) = Len(store.images)
                /\ \A k \in DOMAIN store.images :
                    IF k \notin Addressed(store.images, lastOp'.folder, lastOp'.name)
                    THEN store'.images[k] = store.images[k]
                    ELSE /\ store'.images[k].name = store.images[k].name
                         /\ store'.images[k].folder = store.images[k].folder
                         /\ IF lastOp'.op = "swap_image"
                            THEN /\ store'.images[k].download_allowed =
                                        store.images[k].download_allowed
                                 /\ store'.images[k].image_data =
                                        BytesV(Swapped.jpeg)
                            ELSE /\ store'.images[k].image_data =
                                        store.images[k].image_data
                                 /\ store'.images[k].download_allowed =
                                        IntV(1 - store.images[k].download_allowed.i)
            /\ (lastOp'.ret /\ lastOp'.op = "delete_image") =>
                /\ Addressed(store'.images, lastOp'.folder, lastOp'.name) = {}
                /\ Len(store'.images) = Len(store.images) -
                        Cardinality(Addressed(store.images, lastOp'.folder,
                                              lastOp'.name))
                /\ \A k \in DOMAIN store.images :
                    k \notin Addressed(store.images, lastOp'.folder, lastOp'.name) =>
                        store'.images[k - Cardinality(
                            {l \in Addressed(store.images, lastOp'.folder,
                                             lastOp'.name) : l < k})]
                            = store.images[k]
       /\ \A env \in ScriptEnvs, folder \in {sarika, jamuna, abc} :
            /\ Addressed(store.images, folder, Uuid(2)) = {} =>
                /\ swap_image(store, file, remote, config, env, folder,
                              Uuid(2), Swapped).w.store = store
                /\ update_download_permission(store, file, remote, config, env,
                              folder, Uuid(2), TRUE).w.store = store
                /\ delete_image(store, file, remote, config, env, folder,
                              Uuid(2)).w.store = store]_vars

\* the first image of "sarika" was deleted: the second image of the
\* folder and the image of "jamuna" with the name of the first are left
C29_Witness ==
    /\ lastOp = Op("delete_image", sarika, Uuid(1), TRUE)
    /\ Len(store.images) = 2
    /\ store.images[1] = AlbumStore.images[2]
    /\ store.images[2] = AlbumStore.images[3]
    /\ store.folders = AlbumStore.folders
    /\ store.surveys = AlbumStore.surveys

---------------------------------------------------------------------------
(* Properties of two sessions served side by side (SpecSessions).          *)

\* C26: a survey entry that save_survey_data committed for one session is
\* in the surveys table and in the local snapshot file whenever the runs
\* of both sessions are complete, however the steps of the runs
\* interleaved (no survey entry is deleted here).
C26_NoLostUpdate ==
    (/\ lastOp.op = "save_survey_data"
     /\ lastOp.ret
     /\ \A s \in DOMAIN sessions : sessions[s].at \in {"grid", "zoom", "failed"}) =>
        /\ \E k \in DOMAIN store.surveys :
                /\ store.surveys[k].folder = StrV(lastOp.folder)
                /\ store.surveys[k].timestamp = StrV(lastOp.name)
        /\ file.exists
        /\ file.raw.k = "json"
        /\ \E k \in DOMAIN json_loads(file.raw).surveys.rows :
                /\ json_loads(file.raw).surveys.rows[k].folder = StrV(lastOp.folder)
                /\ json_loads(file.raw).surveys.rows[k].timestamp = StrV(lastOp.name)

\* C30: when the zoom view of a session is built, the folder that
\* zoom_folder names has an image, the view does not raise, and the index
\* it leaves in zoom_index is that of one of the images of the folder.
C30_ZoomIndexInRange ==
    [][\A s \in DOMAIN sessions :
        (/\ sessions[s].at = "page"
         /\ sessions[s].zoom_folder # NoneV
         /\ sessions'[s].at # "page") =>
            /\ get_images(store, sessions[s].zoom_folder.s) # << >>
            /\ sessions'[s].at # "failed"
            /\ sessions'[s].zoom_folder # NoneV =>
                /\ sessions'[s].zoom_index >= 0
                /\ sessions'[s].zoom_index <
                        Len(get_images(store', sessions'[s].zoom_folder.s))]_vars

===========================================================================
